---- MODULE Spec2Model ----
(***************************************************************************)
(* Ledger of the multi-currency wallet service: CarteiraService and its    *)
(* repositories (deposit, withdrawal, conversion, transfer, block, create) *)
(* over the tables CARTEIRA, SALDO_CARTEIRA, DEPOSITO_SAQUE, CONVERSAO and *)
(* TRANSFERENCIA.                                                          *)
(*                                                                         *)
(* Amounts are integers counted in hundredths of the request quantum: a    *)
(* request amount has 8 decimal places (carteira_models.py), a fee is the  *)
(* exact Decimal product amount * 0.01 or amount * 0.02, which has two     *)
(* more places.  Request amounts are therefore multiples of Escala, and    *)
(* so is every amount a column of the store holds (Coluna).                *)
(***************************************************************************)
EXTENDS Integers, Sequences, FiniteSets, TLC

(* ------------------------------ bounds -------------------------------- *)

\* Movement records (committed or being written) the ledger may hold.
MaxMov == 2

\* Movement records the concurrent requests of SpecConc may add to the ones
\* it starts with.
MaxMovConc == 2

(* ----------------------- program configuration ------------------------ *)

\* Denominator of the fee rates: Decimal("0.01") is 1 / Escala.
Escala == 100
TAXA_SAQUE_PERCENTUAL == 1
TAXA_CONVERSAO_PERCENTUAL == 2
TAXA_TRANSFERENCIA_PERCENTUAL == 1

(* ------------------------------ inputs -------------------------------- *)

Procs == {"p1", "p2"}

\* What _gerar_chaves_e_hash can draw: an address with its private key.
\* Two draws never collide (16 and 32 random bytes).
Identidades == {[endereco_carteira |-> "w1", chave_privada |-> "k1"],
                [endereco_carteira |-> "w2", chave_privada |-> "k2"]}

Enderecos == {"w1", "w2"}
Chaves == {"k1", "k2"}

\* The MOEDA table (codigo -> id_moeda); the program never writes it.
MOEDA == ("BTC" :> 1) @@ ("USD" :> 2)

\* Currency codes a request may carry ("XXX" is not in MOEDA).
Codigos == {"BTC", "USD", "XXX"}

\* Request amounts (gt=0, 8 decimal places): multiples of Escala; the fee of
\* each of these has 8 decimal places too.
Valores == {10000, 50000, 100000}

\* Amounts deposited.
Depositos == {100000}

\* Spot prices the quote provider may answer, as num / den.
Cotacoes == {[num |-> 2, den |-> 1], [num |-> 1, den |-> 2]}

None == "None"
SemCotacao == [num |-> 0, den |-> 1]
SemResposta == [status |-> "", corpo |-> ""]

(* --------------------------- pure functions --------------------------- *)

\* hashlib.sha256(chave.encode()).hexdigest(): one digest per key, no
\* two keys of the model share a digest.
SHA256(chave) == CASE chave = "k1" -> "d1"
                   [] chave = "k2" -> "d2"
                   [] OTHER -> "d0"

\* get_id_moeda: the id of the code, or 0 (None) when MOEDA has no such row.
get_id_moeda(codigo) == IF codigo \in DOMAIN MOEDA THEN MOEDA[codigo] ELSE 0

\* valor * taxa with taxa = percentual / Escala (exact for request amounts).
Taxa(valor, percentual) == (valor * percentual) \div Escala

\* valor_origem_liquido * cotacao_utilizada.
Converter(valor_liquido, cotacao) == (valor_liquido * cotacao.num) \div cotacao.den

Linha(endereco, id_moeda) == <<endereco, id_moeda>>

\* A value as an amount column keeps it: 8 fractional digits, the excess
\* rounded half away from zero.
Coluna(x) ==
    IF x >= 0
    THEN ((x + Escala \div 2) \div Escala) * Escala
    ELSE -((((-x) + Escala \div 2) \div Escala) * Escala)

(* ------------------------------- state -------------------------------- *)

VARIABLES
    carteira,         \* CARTEIRA: endereco -> [hash_chave_privada, status]
    saldo_carteira,   \* SALDO_CARTEIRA: <<endereco, id_moeda>> -> saldo
    deposito_saque,   \* DEPOSITO_SAQUE rows, in insertion order
    conversao,        \* CONVERSAO rows, in insertion order
    transferencia,    \* TRANSFERENCIA rows, in insertion order
    proc,             \* each invocation: position, arguments, locals, result
    tx                \* each invocation's open transaction (uncommitted work)

tabelas == <<carteira, saldo_carteira, deposito_saque, conversao, transferencia>>
livro == <<saldo_carteira, deposito_saque, conversao, transferencia>>
vars == <<carteira, saldo_carteira, deposito_saque, conversao, transferencia, proc, tx>>

\* The body of a response: a set of rows (none for an error, and none
\* modelled for the movement operations).
SemRetorno == {}

SemResultado == [tipo |-> "nenhum", msg |-> "", arg |-> [texto |-> "", numeros |-> << >>]]

Ocioso == [pc |-> "ocioso", op |-> "nenhuma",
           endereco_carteira |-> None, endereco_destino |-> None,
           codigo_moeda |-> None, codigo_moeda_destino |-> None,
           valor |-> 0, chave_privada |-> None,
           resposta |-> SemResposta, cotacao_utilizada |-> SemCotacao,
           hash_armazenada |-> None, saldo_atual |-> 0,
           res |-> SemResultado, retorno |-> SemRetorno]

\* No transaction: `with get_connection() as conn:` not entered, or left.
TxVazia == [aberta |-> FALSE, inseridos |-> << >>, deltas |-> << >>]

MovTotal == Len(deposito_saque) + Len(conversao) + Len(transferencia)
EmCurso == Cardinality({p \in Procs : proc[p].pc \notin {"ocioso", "fim"}})


(* ------------------------------ results ------------------------------- *)

\* What an invocation hands back: the exception type (or "sucesso"), the
\* message template and the values the message interpolates.
Resultado(tipo, msg, texto, numeros) ==
    [tipo |-> tipo, msg |-> msg, arg |-> [texto |-> texto, numeros |-> numeros]]

Sucesso == Resultado("sucesso", "sucesso", "", << >>)

MsgCarteiraNaoEncontrada == "Carteira com endereco nao encontrada."
MsgCarteiraNaoEncontradaOuInativa == "Carteira com endereco nao encontrada ou inativa."
MsgMoedaNaoSuportada == "Moeda nao suportada."
MsgChaveInvalidaOuCarteiraNaoEncontrada == "Chave privada invalida ou carteira nao encontrada."
MsgSaldoInsuficienteSaque == "Saldo insuficiente. Necessario para sacar (incluindo taxa). Saldo atual."
MsgFalhaAtualizarSaldo == "Falha ao atualizar saldo. Carteira ou Moeda nao inicializada."
MsgMoedaNaoSuportadaConversao == "Moeda nao suportada na conversao."
MsgMoedasIguais == "Moedas de origem e destino devem ser diferentes."
MsgParNaoSuportado == "Par de moedas nao suportado pela Coinbase."
MsgCoinbaseIndisponivel == "Falha na comunicacao ou na requisicao HTTP com a Coinbase."
MsgCoinbaseErroHttp == "Erro HTTP ao buscar cotacao na Coinbase:"
MsgCoinbaseJsonInesperado == "Resposta da Coinbase com JSON inesperado."
MsgJsonDecodeError == "Expecting value: line 1 column 1 (char 0)"
MsgCarteiraInexistenteOuBloqueada == "Carteira inexistente ou bloqueada."
MsgChaveInvalidaConversao == "Chave privada invalida para a conversao."
MsgSaldoInsuficienteNaMoeda == "Saldo insuficiente na moeda. Necessario (incluindo taxa)."
MsgMesmaCarteira == "A carteira de origem e destino nao podem ser a mesma."
MsgMoedaNaoSuportadaTransferencia == "Moeda nao suportada:"
MsgOrigemNaoEncontrada == "Carteira de origem nao encontrada ou inativa:"
MsgDestinoNaoEncontrado == "Carteira de destino nao encontrada ou inativa:"
MsgChaveNaoEncontradaOrigem == "Chave privada nao encontrada para a carteira de origem ou carteira inativa."
MsgChaveOrigemInvalida == "Chave privada de origem invalida."
MsgFalhaDebitarOrigem == "Falha ao debitar saldo de origem."
MsgFalhaCreditarDestino == "Falha ao creditar saldo de destino."
MsgErroInterno == "Erro interno ao processar."

ErroValor(msg, texto, numeros) == Resultado("ValueError", msg, texto, numeros)

(* --------------------------- storage reads ---------------------------- *)

\* Mutant: the gate looks for the row and not at its status.
verifica_carteira_existe_sem_status(endereco) == endereco \in DOMAIN carteira

\* SELECT 1 FROM CARTEIRA WHERE endereco_carteira = :endereco AND status = 'ATIVA'
verifica_carteira_existe(endereco) ==
    /\ endereco \in DOMAIN carteira
    /\ carteira[endereco].status = "ATIVA"

\* SELECT hash_chave_privada ... AND status = 'ATIVA' (None without such a row)
buscar_hash_privada_ativo(endereco) ==
    IF endereco \in DOMAIN carteira /\ carteira[endereco].status = "ATIVA"
    THEN carteira[endereco].hash_chave_privada
    ELSE None

\* The amount the transaction of p has added to a row and not yet committed.
DeltaProprio(p, linha) ==
    IF linha \in DOMAIN tx[p].deltas THEN tx[p].deltas[linha] ELSE 0

\* SELECT saldo FROM SALDO_CARTEIRA on the connection of p: the committed
\* amount and p's own uncommitted writes; 0 when there is no row.
buscar_saldo_disponivel(p, endereco, id_moeda) ==
    IF Linha(endereco, id_moeda) \in DOMAIN saldo_carteira
    THEN saldo_carteira[Linha(endereco, id_moeda)] + DeltaProprio(p, Linha(endereco, id_moeda))
    ELSE 0

(* ---------------------------- transactions ---------------------------- *)

\* `with get_connection() as conn:` entered by p.
Abrir(p) == [tx EXCEPT ![p].aberta = TRUE]

\* A row updated by a transaction stays locked until that transaction ends.
BloqueadaPorOutro(p, linha) ==
    \E q \in Procs \ {p} : linha \in DOMAIN tx[q].deltas

\* INSERT INTO <tabela> on the connection of p.
Inserir(p, tabela, registro) ==
    [tx EXCEPT ![p].inseridos = Append(@, [tabela |-> tabela, linha |-> registro])]

\* UPDATE SALDO_CARTEIRA SET saldo = saldo + :delta WHERE <linha>, on the
\* connection of p (the row exists).  The sum is computed exactly from the
\* value p reads in the row and is stored as a column value.
Atualizar(p, linha, delta) ==
    LET novo == Coluna(saldo_carteira[linha] + DeltaProprio(p, linha) + delta) IN
    [tx EXCEPT ![p].deltas =
        IF linha \in DOMAIN @ THEN [@ EXCEPT ![linha] = novo - saldo_carteira[linha]]
        ELSE @ @@ (linha :> novo - saldo_carteira[linha])]

\* The rows p inserted into a table, in order.
InseridosEm(p, tabela) ==
    LET s == SelectSeq(tx[p].inseridos, LAMBDA x : x.tabela = tabela)
    IN [i \in 1..Len(s) |-> s[i].linha]

\* CARTEIRA once the transaction of p commits.
CarteiraAposCommit(p) ==
    LET s == InseridosEm(p, "CARTEIRA") IN
    carteira @@
       [e \in {s[i].endereco_carteira : i \in 1..Len(s)} |->
           LET r == s[CHOOSE i \in 1..Len(s) : s[i].endereco_carteira = e] IN
           [hash_chave_privada |-> r.hash_chave_privada, status |-> r.status]]

\* SALDO_CARTEIRA once the transaction of p commits: the rows it updated and
\* the rows it inserted.
SaldoAposCommit(p) ==
    LET s == InseridosEm(p, "SALDO_CARTEIRA") IN
    [l \in DOMAIN saldo_carteira |-> saldo_carteira[l] + DeltaProprio(p, l)]
       @@ [l \in {Linha(s[i].endereco_carteira, s[i].id_moeda) : i \in 1..Len(s)} |->
              s[CHOOSE i \in 1..Len(s) : Linha(s[i].endereco_carteira, s[i].id_moeda) = l].saldo]

\* `with get_connection() as conn:` left by an exception: nothing p wrote is kept.
Rollback(p) == [tx EXCEPT ![p] = TxVazia]

\* The invocation of p ends with res; whatever it had not committed is dropped.
Terminar(p, res) ==
    /\ proc' = [proc EXCEPT ![p].pc = "fim", ![p].res = res]
    /\ tx' = Rollback(p)

\* The invocation of p goes to its next statement.
Seguir(p, pc) == proc' = [proc EXCEPT ![p].pc = pc]

Chamada(p, op, endereco, destino, codigo, codigo_destino, valor, chave, cotacao) ==
    [Ocioso EXCEPT !.op = op, !.endereco_carteira = endereco,
                   !.endereco_destino = destino, !.codigo_moeda = codigo,
                   !.codigo_moeda_destino = codigo_destino, !.valor = valor,
                   !.chave_privada = chave, !.cotacao_utilizada = cotacao]

Init ==
    /\ carteira = << >>
    /\ saldo_carteira = << >>
    /\ deposito_saque = << >>
    /\ conversao = << >>
    /\ transferencia = << >>
    /\ proc = [p \in Procs |-> Ocioso]
    /\ tx = [p \in Procs |-> TxVazia]

(* ------------------------ wallet registry ----------------------------- *)

\* Mutant: the CARTEIRA row keeps the private key itself.
criar_carteira_guardando_chave(p, identidade) ==
    LET endereco == identidade.endereco_carteira
        c == Chamada(p, "criar_carteira", endereco, None, None, None, 0,
                     identidade.chave_privada, SemCotacao) IN
    /\ proc[p].pc = "ocioso"
    /\ endereco \notin DOMAIN carteira
    /\ proc' = [proc EXCEPT ![p] = [c EXCEPT !.pc = "saldos"]]
    /\ tx' = [tx EXCEPT ![p].aberta = TRUE,
                        ![p].inseridos = Append(@,
                            [tabela |-> "CARTEIRA",
                             linha |-> [endereco_carteira |-> endereco,
                                        hash_chave_privada |-> identidade.chave_privada,
                                        status |-> "ATIVA"]])]
    /\ UNCHANGED tabelas

\* criar_carteira and criar_e_inicializar 1: the identity is drawn, the
\* transaction is opened and the CARTEIRA row is inserted, status ATIVA and
\* only the digest of the key.
criar_carteira(p, identidade) ==
    LET endereco == identidade.endereco_carteira
        c == Chamada(p, "criar_carteira", endereco, None, None, None, 0,
                     identidade.chave_privada, SemCotacao) IN
    /\ proc[p].pc = "ocioso"
    /\ endereco \notin DOMAIN carteira
    /\ proc' = [proc EXCEPT ![p] = [c EXCEPT !.pc = "saldos"]]
    /\ tx' = [tx EXCEPT ![p].aberta = TRUE,
                        ![p].inseridos = Append(@,
                            [tabela |-> "CARTEIRA",
                             linha |-> [endereco_carteira |-> endereco,
                                        hash_chave_privada |-> SHA256(identidade.chave_privada),
                                        status |-> "ATIVA"]])]
    /\ UNCHANGED tabelas

\* SELECT id_moeda FROM MOEDA (AUTO_INCREMENT ids 1..n).
IdsDeMoeda == {MOEDA[c] : c \in DOMAIN MOEDA}

\* Mutant: the batch holds only the first currency.
CriarInsertSaldosPrimeiraMoeda(p) ==
    /\ proc[p].pc = "saldos" /\ proc[p].op = "criar_carteira"
    /\ tx' = [tx EXCEPT ![p].inseridos = Append(@,
                 [tabela |-> "SALDO_CARTEIRA",
                  linha |-> [endereco_carteira |-> proc[p].endereco_carteira,
                             id_moeda |-> 1, saldo |-> 0]])]
    /\ Seguir(p, "commit")
    /\ UNCHANGED tabelas

\* criar_e_inicializar 2 to 4: the ids of MOEDA are read and one
\* SALDO_CARTEIRA row with saldo 0.00 is inserted for each, in one batch, on
\* the same connection.
CriarInsertSaldos(p) ==
    /\ proc[p].pc = "saldos" /\ proc[p].op = "criar_carteira"
    /\ tx' = [tx EXCEPT ![p].inseridos = @ \o
                 [i \in 1..Cardinality(IdsDeMoeda) |->
                     [tabela |-> "SALDO_CARTEIRA",
                      linha |-> [endereco_carteira |-> proc[p].endereco_carteira,
                                 id_moeda |-> i, saldo |-> 0]]]]
    /\ Seguir(p, "commit")
    /\ UNCHANGED tabelas

\* SELECT endereco_carteira, data_criacao, status FROM CARTEIRA WHERE
\* endereco_carteira = :endereco, the statement of buscar_por_endereco, of
\* listar (without the WHERE), of atualizar_status and of step 4 of
\* criar_e_inicializar (data_criacao is not modelled).
SelectCarteira(tabela, endereco) ==
    [endereco_carteira |-> endereco, status |-> tabela[endereco].status]

\* Carteira(**data): the fields the model declares.
Carteira(data) ==
    [endereco_carteira |-> data.endereco_carteira, status |-> data.status]

\* CarteiraCriada(**data, chave_privada=chaves["chave_privada"])
CarteiraCriada(data, chave_privada) ==
    [endereco_carteira |-> data.endereco_carteira, status |-> data.status,
     chave_privada |-> chave_privada]

\* Saldo(**s): the fields the model declares.
Saldo(s) == [codigo_moeda |-> s.codigo_moeda, saldo |-> s.saldo]

\* SELECT sc.saldo, m.codigo AS codigo_moeda ... FROM SALDO_CARTEIRA sc JOIN
\* MOEDA m ... WHERE sc.endereco_carteira = :endereco (nome_moeda and
\* data_atualizacao are not modelled).
SelectSaldos(endereco) ==
    {[codigo_moeda |-> c, saldo |-> saldo_carteira[Linha(endereco, MOEDA[c])]] :
        c \in {m \in DOMAIN MOEDA : Linha(endereco, MOEDA[m]) \in DOMAIN saldo_carteira}}

\* A request answered in one step: its result and the rows it returns.
Responde(p, op, endereco, res, retorno) ==
    proc' = [proc EXCEPT ![p] = [Ocioso EXCEPT !.pc = "fim", !.op = op,
                                              !.endereco_carteira = endereco,
                                              !.res = res, !.retorno = retorno]]

\* listar: every wallet.
listar(p) ==
    /\ proc[p].pc = "ocioso"
    /\ Responde(p, "listar", None, Sucesso,
                {Carteira(SelectCarteira(carteira, e)) : e \in DOMAIN carteira})
    /\ UNCHANGED <<tabelas, tx>>

\* buscar_por_endereco: the wallet, or ValueError when there is none.
buscar_por_endereco(p, endereco) ==
    /\ proc[p].pc = "ocioso"
    /\ IF endereco \in DOMAIN carteira
       THEN Responde(p, "buscar_por_endereco", endereco, Sucesso,
                     {Carteira(SelectCarteira(carteira, endereco))})
       ELSE Responde(p, "buscar_por_endereco", endereco,
                     ErroValor(MsgCarteiraNaoEncontrada, endereco, << >>), SemRetorno)
    /\ UNCHANGED <<tabelas, tx>>

\* Mutant: the balances are read for an ATIVA wallet only.
buscar_saldos_so_ativa(p, endereco) ==
    /\ proc[p].pc = "ocioso"
    /\ IF endereco \in DOMAIN carteira /\ carteira[endereco].status = "ATIVA"
       THEN Responde(p, "buscar_saldos", endereco, Sucesso,
                     {Saldo(s) : s \in SelectSaldos(endereco)})
       ELSE Responde(p, "buscar_saldos", endereco,
                     ErroValor(MsgCarteiraNaoEncontrada, endereco, << >>), SemRetorno)
    /\ UNCHANGED <<tabelas, tx>>

\* buscar_saldos: the balances of a wallet that exists, whatever its status.
buscar_saldos(p, endereco) ==
    /\ proc[p].pc = "ocioso"
    /\ IF endereco \in DOMAIN carteira
       THEN Responde(p, "buscar_saldos", endereco, Sucesso,
                     {Saldo(s) : s \in SelectSaldos(endereco)})
       ELSE Responde(p, "buscar_saldos", endereco,
                     ErroValor(MsgCarteiraNaoEncontrada, endereco, << >>), SemRetorno)
    /\ UNCHANGED <<tabelas, tx>>

\* Mutant: the DELETE route removes the row.
atualizar_status_apagando(endereco, status) ==
    [e \in DOMAIN carteira \ {endereco} |-> carteira[e]]

\* UPDATE CARTEIRA SET status = :status WHERE endereco_carteira = :endereco
atualizar_status(endereco, status) ==
    IF endereco \in DOMAIN carteira
    THEN [carteira EXCEPT ![endereco].status = status]
    ELSE carteira

\* bloquear: a wallet that exists becomes BLOQUEADA; an unknown address
\* changes nothing (ValueError).
bloquear(endereco) ==
    /\ carteira' = atualizar_status(endereco, "BLOQUEADA")
    /\ UNCHANGED <<saldo_carteira, deposito_saque, conversao, transferencia, proc, tx>>

\* DELETE /carteiras/{endereco_carteira} as the caller sees it: bloquear and
\* the row it returns, or ValueError (404) when there is no such wallet.
bloquear_carteira(p, endereco) ==
    /\ proc[p].pc = "ocioso"
    /\ carteira' = atualizar_status(endereco, "BLOQUEADA")
    /\ IF endereco \in DOMAIN carteira
       THEN Responde(p, "bloquear", endereco, Sucesso,
                     {Carteira(SelectCarteira(atualizar_status(endereco, "BLOQUEADA"),
                                              endereco))})
       ELSE Responde(p, "bloquear", endereco,
                     ErroValor(MsgCarteiraNaoEncontrada, endereco, << >>), SemRetorno)
    /\ UNCHANGED <<saldo_carteira, deposito_saque, conversao, transferencia, tx>>


(* -------------------- depositar and sacar ----------------------------- *)

\* depositar, up to the opening of its transaction: the ATIVA gate, then
\* the currency lookup.
depositar(p, endereco, codigo, valor) ==
    LET c == Chamada(p, "depositar", endereco, None, codigo, None, valor, None, SemCotacao) IN
    /\ proc[p].pc = "ocioso"
    /\ proc' = [proc EXCEPT ![p] =
         IF ~verifica_carteira_existe(endereco)
         THEN [c EXCEPT !.pc = "fim",
                        !.res = ErroValor(MsgCarteiraNaoEncontradaOuInativa, endereco, << >>)]
         ELSE IF get_id_moeda(codigo) = 0
         THEN [c EXCEPT !.pc = "fim",
                        !.res = ErroValor(MsgMoedaNaoSuportada, codigo, << >>)]
         ELSE [c EXCEPT !.pc = "insert"]]
    /\ tx' = IF verifica_carteira_existe(endereco) /\ get_id_moeda(codigo) # 0
             THEN Abrir(p) ELSE tx
    /\ UNCHANGED tabelas

\* sacar, up to the opening of its transaction: the same gate and lookup.
sacar(p, endereco, codigo, valor, chave) ==
    LET c == Chamada(p, "sacar", endereco, None, codigo, None, valor, chave, SemCotacao) IN
    /\ proc[p].pc = "ocioso"
    /\ proc' = [proc EXCEPT ![p] =
         IF ~verifica_carteira_existe(endereco)
         THEN [c EXCEPT !.pc = "fim",
                        !.res = ErroValor(MsgCarteiraNaoEncontradaOuInativa, endereco, << >>)]
         ELSE IF get_id_moeda(codigo) = 0
         THEN [c EXCEPT !.pc = "fim",
                        !.res = ErroValor(MsgMoedaNaoSuportada, codigo, << >>)]
         ELSE [c EXCEPT !.pc = "hash"]]
    /\ tx' = IF verifica_carteira_existe(endereco) /\ get_id_moeda(codigo) # 0
             THEN Abrir(p) ELSE tx
    /\ UNCHANGED tabelas

\* Mutant: the balance is checked before the key.
SacarChecaSaldoAntesDaChave(p) ==
    LET h == buscar_hash_privada_ativo(proc[p].endereco_carteira)
        saldo_atual == buscar_saldo_disponivel(p, proc[p].endereco_carteira,
                                               get_id_moeda(proc[p].codigo_moeda))
        valor == proc[p].valor IN
    /\ proc[p].pc = "hash" /\ proc[p].op = "sacar"
    /\ IF saldo_atual < valor + Taxa(valor, TAXA_SAQUE_PERCENTUAL)
       THEN /\ proc' = [proc EXCEPT ![p].pc = "fim", ![p].saldo_atual = saldo_atual,
                   ![p].res = ErroValor(MsgSaldoInsuficienteSaque, "",
                       <<valor + Taxa(valor, TAXA_SAQUE_PERCENTUAL), valor,
                         Taxa(valor, TAXA_SAQUE_PERCENTUAL), saldo_atual>>)]
            /\ tx' = Rollback(p)
       ELSE IF h # SHA256(proc[p].chave_privada)
       THEN /\ proc' = [proc EXCEPT ![p].pc = "fim", ![p].hash_armazenada = h,
                   ![p].res = ErroValor(MsgChaveInvalidaOuCarteiraNaoEncontrada, "", << >>)]
            /\ tx' = Rollback(p)
       ELSE /\ proc' = [proc EXCEPT ![p].pc = "saldo", ![p].hash_armazenada = h]
            /\ UNCHANGED tx
    /\ UNCHANGED tabelas

\* sacar 3a: the stored digest of the ATIVA wallet against the digest of the
\* key presented.
SacarAutentica(p) ==
    LET h == buscar_hash_privada_ativo(proc[p].endereco_carteira) IN
    /\ proc[p].pc = "hash" /\ proc[p].op = "sacar"
    /\ IF h # SHA256(proc[p].chave_privada)
       THEN /\ proc' = [proc EXCEPT ![p].pc = "fim", ![p].hash_armazenada = h,
                   ![p].res = ErroValor(MsgChaveInvalidaOuCarteiraNaoEncontrada, "", << >>)]
            /\ tx' = Rollback(p)
       ELSE /\ proc' = [proc EXCEPT ![p].pc = "saldo", ![p].hash_armazenada = h]
            /\ UNCHANGED tx
    /\ UNCHANGED tabelas

\* Mutant: the fee is computed and recorded but left out of the debit.
DebitoSaqueSemTaxa(valor) == valor

\* sacar 3b: taxa_valor and valor_total_debito.
TaxaSaque(valor) == Taxa(valor, TAXA_SAQUE_PERCENTUAL)
DebitoSaque(valor) == valor + TaxaSaque(valor)

\* Mutant: the check compares the balance with the amount alone.
SaldoInsuficienteSaqueSemTaxa(saldo_atual, valor) == saldo_atual < valor

\* sacar 3c: `if saldo_atual < valor_total_debito`.
SaldoInsuficienteSaque(saldo_atual, valor) == saldo_atual < DebitoSaque(valor)

\* sacar 3c: the balance read on the transaction's connection and its check.
SacarChecaSaldo(p) ==
    LET saldo_atual == buscar_saldo_disponivel(p, proc[p].endereco_carteira,
                                               get_id_moeda(proc[p].codigo_moeda))
        valor == proc[p].valor IN
    /\ proc[p].pc = "saldo" /\ proc[p].op = "sacar"
    /\ IF SaldoInsuficienteSaque(saldo_atual, valor)
       THEN /\ proc' = [proc EXCEPT ![p].pc = "fim", ![p].saldo_atual = saldo_atual,
                   ![p].res = ErroValor(MsgSaldoInsuficienteSaque, "",
                       <<DebitoSaque(valor), valor, TaxaSaque(valor), saldo_atual>>)]
            /\ tx' = Rollback(p)
       ELSE /\ proc' = [proc EXCEPT ![p].pc = "insert", ![p].saldo_atual = saldo_atual]
            /\ UNCHANGED tx
    /\ UNCHANGED tabelas

\* The arguments depositar and sacar pass to
\* registrar_movimento_e_atualizar_saldo.
TipoMovimento(op) == IF op = "depositar" THEN "DEPOSITO" ELSE "SAQUE"
TaxaMovimento(op, valor) == IF op = "depositar" THEN 0 ELSE TaxaSaque(valor)
ValorOperacional(op, valor) == IF op = "depositar" THEN valor ELSE -DebitoSaque(valor)

\* Mutant: a movement equal to one already in DEPOSITO_SAQUE is not inserted
\* again.
RegistrarMovimentoInsertDeduplicado(p) ==
    LET r == [endereco_carteira |-> proc[p].endereco_carteira,
              id_moeda |-> get_id_moeda(proc[p].codigo_moeda),
              tipo |-> TipoMovimento(proc[p].op),
              valor |-> Coluna(proc[p].valor),
              taxa_valor |-> Coluna(TaxaMovimento(proc[p].op, proc[p].valor))] IN
    /\ proc[p].pc = "insert" /\ proc[p].op \in {"depositar", "sacar"}
    /\ tx' = IF \E i \in 1..Len(deposito_saque) : deposito_saque[i] = r
             THEN tx
             ELSE Inserir(p, "DEPOSITO_SAQUE", r)
    /\ Seguir(p, "update")
    /\ UNCHANGED tabelas

\* registrar_movimento_e_atualizar_saldo 1: INSERT INTO DEPOSITO_SAQUE.
RegistrarMovimentoInsert(p) ==
    /\ proc[p].pc = "insert" /\ proc[p].op \in {"depositar", "sacar"}
    /\ tx' = Inserir(p, "DEPOSITO_SAQUE",
                [endereco_carteira |-> proc[p].endereco_carteira,
                 id_moeda |-> get_id_moeda(proc[p].codigo_moeda),
                 tipo |-> TipoMovimento(proc[p].op),
                 valor |-> Coluna(proc[p].valor),
                 taxa_valor |-> Coluna(TaxaMovimento(proc[p].op, proc[p].valor))])
    /\ Seguir(p, "update")
    /\ UNCHANGED tabelas

\* Mutant: the UPDATE skips a row another transaction holds.
RegistrarMovimentoUpdateSemEsperar(p) ==
    LET linha == Linha(proc[p].endereco_carteira, get_id_moeda(proc[p].codigo_moeda)) IN
    /\ proc[p].pc = "update" /\ proc[p].op \in {"depositar", "sacar"}
    /\ IF BloqueadaPorOutro(p, linha)
       THEN /\ Seguir(p, "commit")
            /\ UNCHANGED tx
       ELSE IF linha \in DOMAIN saldo_carteira
       THEN /\ tx' = Atualizar(p, linha, ValorOperacional(proc[p].op, proc[p].valor))
            /\ Seguir(p, "commit")
       ELSE Terminar(p, ErroValor(MsgFalhaAtualizarSaldo, "", << >>))
    /\ UNCHANGED tabelas

\* registrar_movimento_e_atualizar_saldo 2: UPDATE SALDO_CARTEIRA; no row
\* matched is a ValueError.
RegistrarMovimentoUpdate(p) ==
    LET linha == Linha(proc[p].endereco_carteira, get_id_moeda(proc[p].codigo_moeda)) IN
    /\ proc[p].pc = "update" /\ proc[p].op \in {"depositar", "sacar"}
    /\ ~BloqueadaPorOutro(p, linha)
    /\ IF linha \in DOMAIN saldo_carteira
       THEN /\ tx' = Atualizar(p, linha, ValorOperacional(proc[p].op, proc[p].valor))
            /\ Seguir(p, "commit")
       ELSE Terminar(p, ErroValor(MsgFalhaAtualizarSaldo, "", << >>))
    /\ UNCHANGED tabelas

\* What a committed invocation returns: criar_carteira returns the row read
\* back on its connection (step 4 of criar_e_inicializar) and the private key.
RetornoDe(p) ==
    IF proc[p].op = "criar_carteira"
    THEN {CarteiraCriada(SelectCarteira(CarteiraAposCommit(p), proc[p].endereco_carteira),
                         proc[p].chave_privada)}
    ELSE SemRetorno

\* `with get_connection() as conn:` left normally: the inserted rows and the
\* balance updates of p become visible together and its locks are released.
Commit(p) ==
    /\ proc[p].pc = "commit"
    /\ carteira' = CarteiraAposCommit(p)
    /\ saldo_carteira' = SaldoAposCommit(p)
    /\ deposito_saque' = deposito_saque \o InseridosEm(p, "DEPOSITO_SAQUE")
    /\ conversao' = conversao \o InseridosEm(p, "CONVERSAO")
    /\ transferencia' = transferencia \o InseridosEm(p, "TRANSFERENCIA")
    /\ proc' = [proc EXCEPT ![p].pc = "fim", ![p].res = Sucesso,
                            ![p].retorno = RetornoDe(p)]
    /\ tx' = [tx EXCEPT ![p] = TxVazia]

\* Any statement on the store may fail: the exception leaves the transaction
\* (rollback) and the router answers 500.  The quote step has no statement on
\* the store.
FalhaArmazenamento(p) ==
    /\ proc[p].pc \notin {"ocioso", "fim", "cotacao"}
    /\ Terminar(p, Resultado("Exception", MsgErroInterno, "", << >>))
    /\ UNCHANGED tabelas

\* The response is sent; the worker is free for the next request.
Retornar(p) ==
    /\ proc[p].pc = "fim"
    /\ proc' = [proc EXCEPT ![p] = Ocioso]
    /\ UNCHANGED <<tabelas, tx>>


(* --------------------------- converter_moeda -------------------------- *)

\* What the quote provider may do with GET /v2/prices/<pair>/spot: answer
\* 200 with a price, answer 200 with a body that is not JSON, that lacks
\* data.amount, whose amount is null or is not a number, answer 404, answer
\* another error status, or not answer (network failure, the 5 s timeout).
CorposMalformados == {"nao_json", "sem_amount", "amount_nulo", "amount_nao_numerico"}
FalhasHttp == {"404", "500", "rede", "timeout"}
RespostasCoinbase ==
    {[status |-> "200", corpo |-> "cotacao", cotacao |-> c] : c \in Cotacoes}
        \cup {[status |-> "200", corpo |-> b, cotacao |-> SemCotacao] : b \in CorposMalformados}
        \cup {[status |-> f, corpo |-> "", cotacao |-> SemCotacao] : f \in FalhasHttp}

\* get_cotacao_coinbase, in the order of its statements and handlers:
\*   client.get fails (httpx.RequestError)      -> except Exception: RuntimeError
\*   status 404                                 -> ValueError, re-raised
\*   raise_for_status (httpx.HTTPStatusError)   -> RuntimeError
\*   response.json() on a body that is not JSON -> json.JSONDecodeError, which
\*        is a ValueError raised outside the inner try: re-raised as it is
\*   data['data']['amount'] missing or null (KeyError, TypeError)
\*                                              -> RuntimeError (inner except)
\*   Decimal(amount) of a string that is not a number
\*        (decimal.InvalidOperation, not a ValueError)
\*                                              -> except Exception: RuntimeError
get_cotacao_coinbase(resposta) ==
    CASE resposta.status \in {"rede", "timeout"} ->
            Resultado("RuntimeError", MsgCoinbaseIndisponivel, "", << >>)
      [] resposta.status = "404" -> ErroValor(MsgParNaoSuportado, "", << >>)
      [] resposta.status # "200" ->
            Resultado("RuntimeError", MsgCoinbaseErroHttp, resposta.status, << >>)
      [] resposta.corpo = "nao_json" -> ErroValor(MsgJsonDecodeError, "", << >>)
      [] resposta.corpo \in {"sem_amount", "amount_nulo"} ->
            Resultado("RuntimeError", MsgCoinbaseJsonInesperado, "", << >>)
      [] resposta.corpo = "amount_nao_numerico" ->
            Resultado("RuntimeError", MsgCoinbaseIndisponivel, "", << >>)
      [] OTHER -> Sucesso

\* Mutant: the fee is computed and recorded and not taken from the amount
\* converted.
ValorOrigemSemTaxa(valor_origem) == valor_origem

\* converter_moeda 3b: taxa_valor, valor_origem_liquido, valor_destino.
TaxaConversao(valor_origem) == Taxa(valor_origem, TAXA_CONVERSAO_PERCENTUAL)
ValorOrigemLiquido(valor_origem) == valor_origem - TaxaConversao(valor_origem)
ValorDestino(valor_origem, cotacao) == Converter(ValorOrigemLiquido(valor_origem), cotacao)

\* Mutant: the source balance is debited by the amount net of the fee.
DebitoConversaoLiquido(valor_origem) == ValorOrigemLiquido(valor_origem)

\* What registrar_conversao_e_atualizar_saldos takes from the source balance:
\* valor_origem, the fee included.
DebitoConversao(valor_origem) == valor_origem

\* Mutant: the transaction is opened before the quote is fetched.
converter_moeda_com_transacao(p, endereco, codigo_origem, codigo_destino, valor_origem, chave) ==
    LET c == Chamada(p, "converter_moeda", endereco, None, codigo_origem, codigo_destino,
                     valor_origem, chave, SemCotacao) IN
    /\ proc[p].pc = "ocioso"
    /\ proc' = [proc EXCEPT ![p] =
         IF get_id_moeda(codigo_origem) = 0 \/ get_id_moeda(codigo_destino) = 0
         THEN [c EXCEPT !.pc = "fim",
                        !.res = ErroValor(MsgMoedaNaoSuportadaConversao, "", << >>)]
         ELSE IF codigo_origem = codigo_destino
         THEN [c EXCEPT !.pc = "fim", !.res = ErroValor(MsgMoedasIguais, "", << >>)]
         ELSE [c EXCEPT !.pc = "cotacao"]]
    /\ tx' = Abrir(p)
    /\ UNCHANGED tabelas

\* converter_moeda 1: both currency lookups (each on a connection of its own,
\* closed when the lookup returns) and the same-currency check.
converter_moeda(p, endereco, codigo_origem, codigo_destino, valor_origem, chave) ==
    LET c == Chamada(p, "converter_moeda", endereco, None, codigo_origem, codigo_destino,
                     valor_origem, chave, SemCotacao) IN
    /\ proc[p].pc = "ocioso"
    /\ proc' = [proc EXCEPT ![p] =
         IF get_id_moeda(codigo_origem) = 0 \/ get_id_moeda(codigo_destino) = 0
         THEN [c EXCEPT !.pc = "fim",
                        !.res = ErroValor(MsgMoedaNaoSuportadaConversao, "", << >>)]
         ELSE IF codigo_origem = codigo_destino
         THEN [c EXCEPT !.pc = "fim", !.res = ErroValor(MsgMoedasIguais, "", << >>)]
         ELSE [c EXCEPT !.pc = "cotacao"]]
    /\ UNCHANGED <<tabelas, tx>>

\* converter_moeda 2 and the entry of 3: the quote, then, when there is one,
\* `with get_connection() as conn:`.
ConverterBuscaCotacao(p, resposta) ==
    /\ proc[p].pc = "cotacao" /\ proc[p].op = "converter_moeda"
    /\ IF get_cotacao_coinbase(resposta) # Sucesso
       THEN /\ proc' = [proc EXCEPT ![p].pc = "fim",
                                    ![p].resposta = [status |-> resposta.status,
                                                     corpo |-> resposta.corpo],
                                    ![p].res = get_cotacao_coinbase(resposta)]
            /\ UNCHANGED tx
       ELSE /\ proc' = [proc EXCEPT ![p].pc = "hash",
                                    ![p].resposta = [status |-> resposta.status,
                                                     corpo |-> resposta.corpo],
                                    ![p].cotacao_utilizada = resposta.cotacao]
            /\ tx' = Abrir(p)
    /\ UNCHANGED tabelas

\* converter_moeda 3a: authentication.
ConverterAutentica(p) ==
    LET h == buscar_hash_privada_ativo(proc[p].endereco_carteira) IN
    /\ proc[p].pc = "hash" /\ proc[p].op = "converter_moeda"
    /\ IF h = None
       THEN /\ proc' = [proc EXCEPT ![p].pc = "fim", ![p].hash_armazenada = h,
                   ![p].res = ErroValor(MsgCarteiraInexistenteOuBloqueada, "", << >>)]
            /\ tx' = Rollback(p)
       ELSE IF SHA256(proc[p].chave_privada) # h
       THEN /\ proc' = [proc EXCEPT ![p].pc = "fim", ![p].hash_armazenada = h,
                   ![p].res = ErroValor(MsgChaveInvalidaConversao, "", << >>)]
            /\ tx' = Rollback(p)
       ELSE /\ proc' = [proc EXCEPT ![p].pc = "saldo", ![p].hash_armazenada = h]
            /\ UNCHANGED tx
    /\ UNCHANGED tabelas

\* Mutant: the check adds the fee on top of the amount, as sacar does.
SaldoInsuficienteConversaoComTaxa(saldo_atual, valor_origem) ==
    saldo_atual < valor_origem + TaxaConversao(valor_origem)

\* converter_moeda 3c: `if saldo_atual < valor_origem`.
SaldoInsuficienteConversao(saldo_atual, valor_origem) == saldo_atual < valor_origem

ConverterChecaSaldo(p) ==
    LET saldo_atual == buscar_saldo_disponivel(p, proc[p].endereco_carteira,
                                               get_id_moeda(proc[p].codigo_moeda)) IN
    /\ proc[p].pc = "saldo" /\ proc[p].op = "converter_moeda"
    /\ IF SaldoInsuficienteConversao(saldo_atual, proc[p].valor)
       THEN /\ proc' = [proc EXCEPT ![p].pc = "fim", ![p].saldo_atual = saldo_atual,
                   ![p].res = ErroValor(MsgSaldoInsuficienteNaMoeda,
                                        proc[p].codigo_moeda, <<proc[p].valor>>)]
            /\ tx' = Rollback(p)
       ELSE /\ proc' = [proc EXCEPT ![p].pc = "insert", ![p].saldo_atual = saldo_atual]
            /\ UNCHANGED tx
    /\ UNCHANGED tabelas

\* Mutant: the INSERT is executed twice.
RegistrarConversaoInsertDuplo(p) ==
    LET r == [endereco_carteira |-> proc[p].endereco_carteira,
              id_moeda_origem |-> get_id_moeda(proc[p].codigo_moeda),
              id_moeda_destino |-> get_id_moeda(proc[p].codigo_moeda_destino),
              valor_origem |-> Coluna(proc[p].valor),
              valor_destino |-> Coluna(ValorDestino(proc[p].valor,
                                                    proc[p].cotacao_utilizada)),
              taxa_percentual |-> TAXA_CONVERSAO_PERCENTUAL,
              taxa_valor |-> Coluna(TaxaConversao(proc[p].valor)),
              cotacao_utilizada |-> proc[p].cotacao_utilizada] IN
    /\ proc[p].pc = "insert" /\ proc[p].op = "converter_moeda"
    /\ tx' = [tx EXCEPT ![p].inseridos =
                 @ \o <<[tabela |-> "CONVERSAO", linha |-> r],
                        [tabela |-> "CONVERSAO", linha |-> r]>>]
    /\ Seguir(p, "update_origem")
    /\ UNCHANGED tabelas

\* registrar_conversao_e_atualizar_saldos 1: INSERT INTO CONVERSAO.
RegistrarConversaoInsert(p) ==
    /\ proc[p].pc = "insert" /\ proc[p].op = "converter_moeda"
    /\ tx' = Inserir(p, "CONVERSAO",
                [endereco_carteira |-> proc[p].endereco_carteira,
                 id_moeda_origem |-> get_id_moeda(proc[p].codigo_moeda),
                 id_moeda_destino |-> get_id_moeda(proc[p].codigo_moeda_destino),
                 valor_origem |-> Coluna(proc[p].valor),
                 valor_destino |-> Coluna(ValorDestino(proc[p].valor,
                                                       proc[p].cotacao_utilizada)),
                 taxa_percentual |-> TAXA_CONVERSAO_PERCENTUAL,
                 taxa_valor |-> Coluna(TaxaConversao(proc[p].valor)),
                 cotacao_utilizada |-> proc[p].cotacao_utilizada])
    /\ Seguir(p, "update_origem")
    /\ UNCHANGED tabelas

\* registrar_conversao_e_atualizar_saldos 2: the debit of valor_origem; the
\* row count is not looked at.
RegistrarConversaoUpdateOrigem(p) ==
    LET linha == Linha(proc[p].endereco_carteira, get_id_moeda(proc[p].codigo_moeda)) IN
    /\ proc[p].pc = "update_origem" /\ proc[p].op = "converter_moeda"
    /\ ~BloqueadaPorOutro(p, linha)
    /\ tx' = IF linha \in DOMAIN saldo_carteira
             THEN Atualizar(p, linha, -DebitoConversao(proc[p].valor))
             ELSE tx
    /\ Seguir(p, "update_destino")
    /\ UNCHANGED tabelas

\* registrar_conversao_e_atualizar_saldos 3: the credit of valor_destino;
\* the row count is not looked at.
RegistrarConversaoUpdateDestino(p) ==
    LET linha == Linha(proc[p].endereco_carteira, get_id_moeda(proc[p].codigo_moeda_destino)) IN
    /\ proc[p].pc = "update_destino" /\ proc[p].op = "converter_moeda"
    /\ ~BloqueadaPorOutro(p, linha)
    /\ tx' = IF linha \in DOMAIN saldo_carteira
             THEN Atualizar(p, linha, ValorDestino(proc[p].valor, proc[p].cotacao_utilizada))
             ELSE tx
    /\ Seguir(p, "commit")
    /\ UNCHANGED tabelas

(* -------------------------- transferir_moeda -------------------------- *)

\* Mutant: the transfer fee is computed with the conversion rate.
TaxaTransferenciaComTaxaDeConversao(valor) == Taxa(valor, TAXA_CONVERSAO_PERCENTUAL)

\* transferir_moeda 5: taxa_valor.
TaxaTransferencia(valor) == Taxa(valor, TAXA_TRANSFERENCIA_PERCENTUAL)

\* Mutant: the origin is debited by the amount alone.
DebitoTransferenciaSemTaxa(valor) == valor

\* Mutant: the destination is credited with the amount and the fee.
ValorLiquidoDestinoComTaxa(valor) == valor + TaxaTransferencia(valor)

\* transferir_moeda 5: valor_total_debito and valor_liquido_destino.
DebitoTransferencia(valor) == valor + TaxaTransferencia(valor)
ValorLiquidoDestino(valor) == valor

\* Mutant: the currency lookup comes before the same-wallet check.
transferir_moeda_moeda_primeiro(p, origem, destino, codigo, valor, chave) ==
    LET c == Chamada(p, "transferir_moeda", origem, destino, codigo, None,
                     valor, chave, SemCotacao) IN
    /\ proc[p].pc = "ocioso"
    /\ proc' = [proc EXCEPT ![p] =
         IF get_id_moeda(codigo) = 0
         THEN [c EXCEPT !.pc = "fim",
                        !.res = ErroValor(MsgMoedaNaoSuportadaTransferencia, codigo, << >>)]
         ELSE IF origem = destino
         THEN [c EXCEPT !.pc = "fim", !.res = ErroValor(MsgMesmaCarteira, "", << >>)]
         ELSE IF ~verifica_carteira_existe(origem)
         THEN [c EXCEPT !.pc = "fim",
                        !.res = ErroValor(MsgOrigemNaoEncontrada, origem, << >>)]
         ELSE [c EXCEPT !.pc = "verifica_destino"]]
    /\ UNCHANGED <<tabelas, tx>>

\* transferir_moeda 1 to 3 (origin): the same-wallet check, the currency
\* lookup and the gate of the origin.
transferir_moeda(p, origem, destino, codigo, valor, chave) ==
    LET c == Chamada(p, "transferir_moeda", origem, destino, codigo, None,
                     valor, chave, SemCotacao) IN
    /\ proc[p].pc = "ocioso"
    /\ proc' = [proc EXCEPT ![p] =
         IF origem = destino
         THEN [c EXCEPT !.pc = "fim", !.res = ErroValor(MsgMesmaCarteira, "", << >>)]
         ELSE IF get_id_moeda(codigo) = 0
         THEN [c EXCEPT !.pc = "fim",
                        !.res = ErroValor(MsgMoedaNaoSuportadaTransferencia, codigo, << >>)]
         ELSE IF ~verifica_carteira_existe(origem)
         THEN [c EXCEPT !.pc = "fim",
                        !.res = ErroValor(MsgOrigemNaoEncontrada, origem, << >>)]
         ELSE [c EXCEPT !.pc = "verifica_destino"]]
    /\ UNCHANGED <<tabelas, tx>>

\* transferir_moeda 3 (destination): the gate of the destination.
TransferirVerificaDestino(p) ==
    /\ proc[p].pc = "verifica_destino" /\ proc[p].op = "transferir_moeda"
    /\ IF ~verifica_carteira_existe(proc[p].endereco_destino)
       THEN Terminar(p, ErroValor(MsgDestinoNaoEncontrado, proc[p].endereco_destino, << >>))
       ELSE Seguir(p, "hash") /\ UNCHANGED tx
    /\ UNCHANGED tabelas

\* Mutant: the digest is looked up for the destination.
TransferirAutenticaPeloDestino(p) ==
    LET h == buscar_hash_privada_ativo(proc[p].endereco_destino) IN
    /\ proc[p].pc = "hash" /\ proc[p].op = "transferir_moeda"
    /\ IF h = None
       THEN /\ proc' = [proc EXCEPT ![p].pc = "fim", ![p].hash_armazenada = h,
                   ![p].res = ErroValor(MsgChaveNaoEncontradaOrigem, "", << >>)]
            /\ tx' = Rollback(p)
       ELSE IF SHA256(proc[p].chave_privada) # h
       THEN /\ proc' = [proc EXCEPT ![p].pc = "fim", ![p].hash_armazenada = h,
                   ![p].res = ErroValor(MsgChaveOrigemInvalida, "", << >>)]
            /\ tx' = Rollback(p)
       ELSE /\ proc' = [proc EXCEPT ![p].pc = "saldo", ![p].hash_armazenada = h]
            /\ tx' = Abrir(p)
    /\ UNCHANGED tabelas

\* transferir_moeda 4: authentication against the origin's digest, on a
\* connection of its own; the transaction of step 6 is opened after it.
TransferirAutentica(p) ==
    LET h == buscar_hash_privada_ativo(proc[p].endereco_carteira) IN
    /\ proc[p].pc = "hash" /\ proc[p].op = "transferir_moeda"
    /\ IF h = None
       THEN /\ proc' = [proc EXCEPT ![p].pc = "fim", ![p].hash_armazenada = h,
                   ![p].res = ErroValor(MsgChaveNaoEncontradaOrigem, "", << >>)]
            /\ tx' = Rollback(p)
       ELSE IF SHA256(proc[p].chave_privada) # h
       THEN /\ proc' = [proc EXCEPT ![p].pc = "fim", ![p].hash_armazenada = h,
                   ![p].res = ErroValor(MsgChaveOrigemInvalida, "", << >>)]
            /\ tx' = Rollback(p)
       ELSE /\ proc' = [proc EXCEPT ![p].pc = "saldo", ![p].hash_armazenada = h]
            /\ tx' = Abrir(p)
    /\ UNCHANGED tabelas

\* Mutant: the check compares the balance with the amount alone.
SaldoInsuficienteTransferenciaSemTaxa(saldo_atual, valor) == saldo_atual < valor

\* transferir_moeda 6.1: `if saldo_atual < valor_total_debito`.
SaldoInsuficienteTransferencia(saldo_atual, valor) == saldo_atual < DebitoTransferencia(valor)

TransferirChecaSaldo(p) ==
    LET saldo_atual == buscar_saldo_disponivel(p, proc[p].endereco_carteira,
                                               get_id_moeda(proc[p].codigo_moeda)) IN
    /\ proc[p].pc = "saldo" /\ proc[p].op = "transferir_moeda"
    /\ IF SaldoInsuficienteTransferencia(saldo_atual, proc[p].valor)
       THEN /\ proc' = [proc EXCEPT ![p].pc = "fim", ![p].saldo_atual = saldo_atual,
                   ![p].res = ErroValor(MsgSaldoInsuficienteNaMoeda, proc[p].codigo_moeda,
                                        <<DebitoTransferencia(proc[p].valor)>>)]
            /\ tx' = Rollback(p)
       ELSE /\ proc' = [proc EXCEPT ![p].pc = "insert", ![p].saldo_atual = saldo_atual]
            /\ UNCHANGED tx
    /\ UNCHANGED tabelas

\* registrar_transferencia_e_atualizar_saldos 1: INSERT INTO TRANSFERENCIA
\* (valor is the total debited: amount and fee).
RegistrarTransferenciaInsert(p) ==
    /\ proc[p].pc = "insert" /\ proc[p].op = "transferir_moeda"
    /\ tx' = Inserir(p, "TRANSFERENCIA",
                [endereco_origem |-> proc[p].endereco_carteira,
                 endereco_destino |-> proc[p].endereco_destino,
                 id_moeda |-> get_id_moeda(proc[p].codigo_moeda),
                 valor |-> Coluna(DebitoTransferencia(proc[p].valor)),
                 taxa_valor |-> Coluna(TaxaTransferencia(proc[p].valor))])
    /\ Seguir(p, "update_origem")
    /\ UNCHANGED tabelas

\* Mutant: the debit of the origin runs on a connection of its own and is
\* committed at once.
RegistrarTransferenciaUpdateOrigemForaDaTransacao(p) ==
    LET linha == Linha(proc[p].endereco_carteira, get_id_moeda(proc[p].codigo_moeda)) IN
    /\ proc[p].pc = "update_origem" /\ proc[p].op = "transferir_moeda"
    /\ ~BloqueadaPorOutro(p, linha)
    /\ linha \in DOMAIN saldo_carteira
    /\ saldo_carteira' = [saldo_carteira EXCEPT ![linha] = @ - Coluna(DebitoTransferencia(proc[p].valor))]
    /\ Seguir(p, "update_destino")
    /\ UNCHANGED <<carteira, deposito_saque, conversao, transferencia, tx>>

\* registrar_transferencia_e_atualizar_saldos 2: the debit of the origin.
RegistrarTransferenciaUpdateOrigem(p) ==
    LET linha == Linha(proc[p].endereco_carteira, get_id_moeda(proc[p].codigo_moeda)) IN
    /\ proc[p].pc = "update_origem" /\ proc[p].op = "transferir_moeda"
    /\ ~BloqueadaPorOutro(p, linha)
    /\ IF linha \in DOMAIN saldo_carteira
       THEN /\ tx' = Atualizar(p, linha, -DebitoTransferencia(proc[p].valor))
            /\ Seguir(p, "update_destino")
       ELSE Terminar(p, ErroValor(MsgFalhaDebitarOrigem, proc[p].endereco_carteira, << >>))
    /\ UNCHANGED tabelas

\* registrar_transferencia_e_atualizar_saldos 3: the credit of the destination.
RegistrarTransferenciaUpdateDestino(p) ==
    LET linha == Linha(proc[p].endereco_destino, get_id_moeda(proc[p].codigo_moeda)) IN
    /\ proc[p].pc = "update_destino" /\ proc[p].op = "transferir_moeda"
    /\ ~BloqueadaPorOutro(p, linha)
    /\ IF linha \in DOMAIN saldo_carteira
       THEN /\ tx' = Atualizar(p, linha, ValorLiquidoDestino(proc[p].valor))
            /\ Seguir(p, "commit")
       ELSE Terminar(p, ErroValor(MsgFalhaCreditarDestino, proc[p].endereco_destino, << >>))
    /\ UNCHANGED tabelas

(* --------------------------- specifications --------------------------- *)

\* One request at a time: the next one starts when no other is running.
Parado == \A q \in Procs : proc[q].pc = "ocioso"
UmPorVez == Parado /\ MovTotal < MaxMov

Passo(p) ==
    \/ SacarAutentica(p)
    \/ SacarChecaSaldo(p)
    \/ RegistrarMovimentoInsert(p)
    \/ RegistrarMovimentoUpdate(p)
    \/ \E r \in RespostasCoinbase : ConverterBuscaCotacao(p, r)
    \/ ConverterAutentica(p)
    \/ ConverterChecaSaldo(p)
    \/ RegistrarConversaoInsert(p)
    \/ RegistrarConversaoUpdateOrigem(p)
    \/ RegistrarConversaoUpdateDestino(p)
    \/ TransferirVerificaDestino(p)
    \/ TransferirAutentica(p)
    \/ TransferirChecaSaldo(p)
    \/ RegistrarTransferenciaInsert(p)
    \/ RegistrarTransferenciaUpdateOrigem(p)
    \/ RegistrarTransferenciaUpdateDestino(p)
    \/ Commit(p)
    \/ FalhaArmazenamento(p)
    \/ Retornar(p)

Next ==
    \/ \E i \in Identidades : Parado /\ criar_carteira("p1", i)
    \/ \E p \in Procs : CriarInsertSaldos(p)
    \/ \E e \in Enderecos : bloquear(e)
    \/ \E e \in Enderecos, c \in Codigos, v \in Depositos :
          UmPorVez /\ depositar("p1", e, c, v)
    \/ \E e \in Enderecos, c \in Codigos, v \in Valores, k \in Chaves :
          UmPorVez /\ sacar("p1", e, c, v, k)
    \/ \E e \in Enderecos, co \in Codigos, cd \in Codigos, v \in Valores, k \in Chaves :
          UmPorVez /\ converter_moeda("p1", e, co, cd, v, k)
    \/ \E o \in Enderecos, d \in Enderecos, c \in Codigos, v \in Valores, k \in Chaves :
          UmPorVez /\ transferir_moeda("p1", o, d, c, v, k)
    \/ \E p \in Procs : Passo(p)

Spec == Init /\ [][Next]_vars


(* ---------------------- concurrent specification ---------------------- *)

\* The ledger after criar_carteira twice and one deposit of 100000 BTC into
\* each wallet (a state Spec reaches).
DepositosIniciais ==
    <<[endereco_carteira |-> "w1", id_moeda |-> 1, tipo |-> "DEPOSITO",
       valor |-> 100000, taxa_valor |-> 0],
      [endereco_carteira |-> "w2", id_moeda |-> 1, tipo |-> "DEPOSITO",
       valor |-> 100000, taxa_valor |-> 0]>>

InitConc ==
    /\ carteira = [e \in Enderecos |->
                     [hash_chave_privada |-> SHA256(IF e = "w1" THEN "k1" ELSE "k2"),
                      status |-> "ATIVA"]]
    /\ saldo_carteira = [l \in Enderecos \X {1, 2} |-> IF l[2] = 1 THEN 100000 ELSE 0]
    /\ deposito_saque = DepositosIniciais
    /\ conversao = << >>
    /\ transferencia = << >>
    /\ proc = [p \in Procs |-> Ocioso]
    /\ tx = [p \in Procs |-> TxVazia]

\* Requests overlap: a worker starts its next request whatever the others do.
Livre(p) == MovTotal + EmCurso < Len(DepositosIniciais) + MaxMovConc

ChaveDe(endereco) == IF endereco = "w1" THEN "k1" ELSE "k2"

NextConc ==
    \/ \E p \in Procs : Livre(p) /\ depositar(p, "w1", "BTC", 100000)
    \/ \E p \in Procs, v \in {50000, 100000} : Livre(p) /\ sacar(p, "w1", "BTC", v, "k1")
    \/ \E p \in Procs :
          Livre(p) /\ converter_moeda(p, "w1", "BTC", "USD", 50000, "k1")
    \/ \E p \in Procs, o \in Enderecos :
          \E d \in Enderecos \ {o} :
             Livre(p) /\ transferir_moeda(p, o, d, "BTC", 50000, ChaveDe(o))
    \/ \E p \in Procs : Passo(p)

SpecConc == InitConc /\ [][NextConc]_vars


(* ------------- specification with a missing balance row -------------- *)

\* The ledger when USD was added to MOEDA after w2 was created and before w1
\* was: w1 has a balance row for each currency, w2 has none for USD.  Each
\* row that exists holds one deposit of 100000.
DepositosSemLinha ==
    <<[endereco_carteira |-> "w2", id_moeda |-> 1, tipo |-> "DEPOSITO",
       valor |-> 100000, taxa_valor |-> 0],
      [endereco_carteira |-> "w1", id_moeda |-> 1, tipo |-> "DEPOSITO",
       valor |-> 100000, taxa_valor |-> 0],
      [endereco_carteira |-> "w1", id_moeda |-> 2, tipo |-> "DEPOSITO",
       valor |-> 100000, taxa_valor |-> 0]>>

InitSemLinha ==
    /\ carteira = [e \in Enderecos |->
                     [hash_chave_privada |-> SHA256(ChaveDe(e)), status |-> "ATIVA"]]
    /\ saldo_carteira = [l \in {<<"w1", 1>>, <<"w1", 2>>, <<"w2", 1>>} |-> 100000]
    /\ deposito_saque = DepositosSemLinha
    /\ conversao = << >>
    /\ transferencia = << >>
    /\ proc = [p \in Procs |-> Ocioso]
    /\ tx = [p \in Procs |-> TxVazia]

\* One request at a time, with the right key.
UmPorVezSemLinha == Parado /\ MovTotal < Len(DepositosSemLinha) + MaxMov

NextSemLinha ==
    \/ \E e \in Enderecos, c \in DOMAIN MOEDA :
          UmPorVezSemLinha /\ depositar("p1", e, c, 100000)
    \/ \E e \in Enderecos, c \in DOMAIN MOEDA :
          UmPorVezSemLinha /\ sacar("p1", e, c, 50000, ChaveDe(e))
    \/ \E e \in Enderecos, co \in DOMAIN MOEDA, cd \in DOMAIN MOEDA :
          UmPorVezSemLinha /\ converter_moeda("p1", e, co, cd, 50000, ChaveDe(e))
    \/ \E o \in Enderecos, d \in Enderecos, c \in DOMAIN MOEDA :
          UmPorVezSemLinha /\ transferir_moeda("p1", o, d, c, 50000, ChaveDe(o))
    \/ \E p \in Procs : Passo(p)

SpecSemLinha == InitSemLinha /\ [][NextSemLinha]_vars


(* ------------------- specification of the round trip ------------------ *)

\* Conversions a round trip may chain.
MaxConversoes == 2

\* Amounts deposited before the round trip, 0.01 and 0.02: multiples of
\* Escala ^ 4, so that a column holds the fee and the credit of every
\* conversion of the chain exactly.
Montantes == {100000000, 200000000}

\* One wallet, w1, created and holding one deposit of BTC.
InitIdaEVolta ==
    \E x \in Montantes :
        /\ carteira = ("w1" :> [hash_chave_privada |-> SHA256("k1"), status |-> "ATIVA"])
        /\ saldo_carteira = (<<"w1", 1>> :> x) @@ (<<"w1", 2>> :> 0)
        /\ deposito_saque = <<[endereco_carteira |-> "w1", id_moeda |-> 1,
                               tipo |-> "DEPOSITO", valor |-> x, taxa_valor |-> 0]>>
        /\ conversao = << >>
        /\ transferencia = << >>
        /\ proc = [p \in Procs |-> Ocioso]
        /\ tx = [p \in Procs |-> TxVazia]

\* The owner converts everything the wallet holds of one currency into the
\* other, one conversion at a time.
NextIdaEVolta ==
    \/ \E co \in DOMAIN MOEDA, cd \in DOMAIN MOEDA :
          /\ Parado
          /\ Len(conversao) < MaxConversoes
          /\ saldo_carteira[<<"w1", MOEDA[co]>>] > 0
          /\ converter_moeda("p1", "w1", co, cd, saldo_carteira[<<"w1", MOEDA[co]>>], "k1")
    \/ \E p \in Procs, r \in RespostasCoinbase : ConverterBuscaCotacao(p, r)
    \/ \E p \in Procs : ConverterAutentica(p)
    \/ \E p \in Procs : ConverterChecaSaldo(p)
    \/ \E p \in Procs : RegistrarConversaoInsert(p)
    \/ \E p \in Procs : RegistrarConversaoUpdateOrigem(p)
    \/ \E p \in Procs : RegistrarConversaoUpdateDestino(p)
    \/ \E p \in Procs : Commit(p)
    \/ \E p \in Procs : Retornar(p)

SpecIdaEVolta == InitIdaEVolta /\ [][NextIdaEVolta]_vars


(* -------------------- specification with the queries ------------------ *)

\* One request at a time from the empty ledger: wallets are created, read,
\* blocked through the DELETE route and used with either key.
NextConsultas ==
    \/ \E i \in Identidades : Parado /\ criar_carteira("p1", i)
    \/ \E p \in Procs : CriarInsertSaldos(p)
    \/ \E e \in Enderecos : Parado /\ bloquear_carteira("p1", e)
    \/ Parado /\ listar("p1")
    \/ \E e \in Enderecos : Parado /\ buscar_por_endereco("p1", e)
    \/ \E e \in Enderecos : Parado /\ buscar_saldos("p1", e)
    \/ \E e \in Enderecos : UmPorVez /\ depositar("p1", e, "BTC", 100000)
    \/ \E e \in Enderecos, k \in Chaves : UmPorVez /\ sacar("p1", e, "BTC", 50000, k)
    \/ \E e \in Enderecos, k \in Chaves :
          UmPorVez /\ converter_moeda("p1", e, "BTC", "USD", 50000, k)
    \/ \E o \in Enderecos, k \in Chaves :
          \E d \in Enderecos \ {o} :
             UmPorVez /\ transferir_moeda("p1", o, d, "BTC", 50000, k)
    \/ \E p \in Procs : Passo(p)

SpecConsultas == Init /\ [][NextConsultas]_vars


(* ---------------- specification of repeated withdrawals --------------- *)

\* Withdrawals one run may commit.
MaxSaques == 3

\* Request amounts of 8 decimal places: 0.00000001 (its fee, 0.0000000001,
\* is below what a column holds), 0.00000050 (fee 0.000000005, half of it)
\* and 0.00000100 (fee 0.00000001, which a column holds).
ValoresFinos == {100, 5000, 10000}

\* The balance the withdrawals start from.
SaldosIniciais == {20000, 30000}

\* One wallet, w1, created and holding one deposit of BTC.
InitPrecisao ==
    \E x \in SaldosIniciais :
        /\ carteira = ("w1" :> [hash_chave_privada |-> SHA256("k1"), status |-> "ATIVA"])
        /\ saldo_carteira = (<<"w1", 1>> :> x) @@ (<<"w1", 2>> :> 0)
        /\ deposito_saque = <<[endereco_carteira |-> "w1", id_moeda |-> 1,
                               tipo |-> "DEPOSITO", valor |-> x, taxa_valor |-> 0]>>
        /\ conversao = << >>
        /\ transferencia = << >>
        /\ proc = [p \in Procs |-> Ocioso]
        /\ tx = [p \in Procs |-> TxVazia]

\* The owner withdraws again and again, one request at a time.
NextPrecisao ==
    \/ \E v \in ValoresFinos :
          /\ Parado
          /\ Len(deposito_saque) < 1 + MaxSaques
          /\ sacar("p1", "w1", "BTC", v, "k1")
    \/ \E p \in Procs : SacarAutentica(p)
    \/ \E p \in Procs : SacarChecaSaldo(p)
    \/ \E p \in Procs : RegistrarMovimentoInsert(p)
    \/ \E p \in Procs : RegistrarMovimentoUpdate(p)
    \/ \E p \in Procs : Commit(p)
    \/ \E p \in Procs : Retornar(p)

SpecPrecisao == InitPrecisao /\ [][NextPrecisao]_vars


(* ------------------------------ claims -------------------------------- *)

\* The invocation of p completes successfully in this step.
Conclui(p, op) ==
    /\ proc[p].op = op
    /\ proc[p].pc # "fim"
    /\ proc'[p].pc = "fim"
    /\ proc'[p].res = Sucesso

\* The invocation of p fails in this step with a business error (ValueError).
FalhaDeNegocio(p) ==
    /\ proc[p].pc # "fim"
    /\ proc'[p].pc = "fim"
    /\ proc'[p].res.tipo = "ValueError"

\* Every balance row outside S is kept, and no row appears or disappears.
SoMudam(S) ==
    /\ DOMAIN saldo_carteira' = DOMAIN saldo_carteira
    /\ \A l \in DOMAIN saldo_carteira \ S : saldo_carteira'[l] = saldo_carteira[l]

LinhaOrigem(p) == Linha(proc[p].endereco_carteira, get_id_moeda(proc[p].codigo_moeda))
LinhaDestinoTransferencia(p) ==
    Linha(proc[p].endereco_destino, get_id_moeda(proc[p].codigo_moeda))
LinhaDestinoConversao(p) ==
    Linha(proc[p].endereco_carteira, get_id_moeda(proc[p].codigo_moeda_destino))

\* C1: under concurrent withdrawals on one (address, currency) no balance is
\* ever negative: in every reachable state every balance row is >= 0.
C1_SaldoNuncaNegativo ==
    \A l \in DOMAIN saldo_carteira : saldo_carteira[l] >= 0

\* The balance deltas a movement record describes, on row l.
EfeitoMovimento(r, l) ==
    IF l = Linha(r.endereco_carteira, r.id_moeda)
    THEN (IF r.tipo = "DEPOSITO" THEN r.valor ELSE -(r.valor + r.taxa_valor))
    ELSE 0
EfeitoConversao(r, l) ==
    (IF l = Linha(r.endereco_carteira, r.id_moeda_origem) THEN -r.valor_origem ELSE 0)
    + (IF l = Linha(r.endereco_carteira, r.id_moeda_destino) THEN r.valor_destino ELSE 0)
EfeitoTransferencia(r, l) ==
    (IF l = Linha(r.endereco_origem, r.id_moeda) THEN -r.valor ELSE 0)
    + (IF l = Linha(r.endereco_destino, r.id_moeda) THEN r.valor - r.taxa_valor ELSE 0)

Acrescenta(log) == Len(log') = Len(log) + 1 /\ SubSeq(log', 1, Len(log)) = log

TudoOuNada ==
    /\ \/ /\ UNCHANGED <<deposito_saque, conversao, transferencia>>
          /\ \A l \in DOMAIN saldo_carteira : saldo_carteira'[l] = saldo_carteira[l]
       \/ /\ Acrescenta(deposito_saque)
          /\ UNCHANGED <<conversao, transferencia>>
          /\ DOMAIN saldo_carteira' = DOMAIN saldo_carteira
          /\ \A l \in DOMAIN saldo_carteira : saldo_carteira'[l] =
                saldo_carteira[l] + EfeitoMovimento(deposito_saque'[Len(deposito_saque')], l)
       \/ /\ Acrescenta(conversao)
          /\ UNCHANGED <<deposito_saque, transferencia>>
          /\ DOMAIN saldo_carteira' = DOMAIN saldo_carteira
          /\ \A l \in DOMAIN saldo_carteira : saldo_carteira'[l] =
                saldo_carteira[l] + EfeitoConversao(conversao'[Len(conversao')], l)
       \/ /\ Acrescenta(transferencia)
          /\ UNCHANGED <<deposito_saque, conversao>>
          /\ DOMAIN saldo_carteira' = DOMAIN saldo_carteira
          /\ \A l \in DOMAIN saldo_carteira : saldo_carteira'[l] =
                saldo_carteira[l] + EfeitoTransferencia(transferencia'[Len(transferencia')], l)
    /\ \A p \in Procs :
          (proc[p].pc # "fim" /\ proc'[p].pc = "fim" /\ proc'[p].res # Sucesso)
             => (UNCHANGED livro /\ tx'[p] = TxVazia)

\* C2: every operation is all-or-nothing.  Every step either leaves all
\* balances and all movement logs as they are, or appends exactly one
\* movement record and applies exactly the balance deltas that record
\* describes; an invocation that ends in a failure (a storage fault between
\* the insert and the last update included) leaves neither record nor delta.
C2_TudoOuNada == [][TudoOuNada]_vars

\* A transfer between its insert and its last balance update: the record and
\* the origin's debit are written and nothing of them is visible.
C2_Witness ==
    /\ proc["p1"].op = "transferir_moeda"
    /\ proc["p1"].pc = "update_destino"
    /\ Len(tx["p1"].inseridos) = 1
    /\ DOMAIN tx["p1"].deltas # {}
    /\ transferencia = << >>

SaqueExato ==
    \A p \in Procs : Conclui(p, "sacar") =>
        LET valor == proc[p].valor
            taxa == (valor * 1) \div 100
            l == LinhaOrigem(p) IN
        /\ saldo_carteira'[l] = saldo_carteira[l] - (valor + taxa)
        /\ SoMudam({l})
        /\ deposito_saque' = Append(deposito_saque,
              [endereco_carteira |-> proc[p].endereco_carteira, id_moeda |-> l[2],
               tipo |-> "SAQUE", valor |-> valor, taxa_valor |-> taxa])
        /\ UNCHANGED <<conversao, transferencia>>
        /\ (saldo_carteira[l] = 100000 /\ valor = 10000) => saldo_carteira'[l] = 89900

TransferenciaExata ==
    \A p \in Procs : Conclui(p, "transferir_moeda") =>
        LET valor == proc[p].valor
            taxa == (valor * 1) \div 100
            o == LinhaOrigem(p)
            d == LinhaDestinoTransferencia(p) IN
        /\ saldo_carteira'[o] = saldo_carteira[o] - (valor + taxa)
        /\ saldo_carteira'[d] = saldo_carteira[d] + valor
        /\ SoMudam({o, d})
        /\ transferencia' = Append(transferencia,
              [endereco_origem |-> proc[p].endereco_carteira,
               endereco_destino |-> proc[p].endereco_destino, id_moeda |-> o[2],
               valor |-> valor + taxa, taxa_valor |-> taxa])
        /\ UNCHANGED <<deposito_saque, conversao>>

CenarioTransferencia(p) ==
    /\ Conclui(p, "transferir_moeda")
    /\ proc[p].valor = 50000
    /\ saldo_carteira[LinhaOrigem(p)] = 100000
    /\ saldo_carteira[LinhaDestinoTransferencia(p)] = 0

ConversaoExata ==
    \A p \in Procs : Conclui(p, "converter_moeda") =>
        LET valor == proc[p].valor
            taxa == (valor * 2) \div 100
            cotacao == proc[p].cotacao_utilizada
            credito == ((valor - taxa) * cotacao.num) \div cotacao.den
            o == LinhaOrigem(p)
            d == LinhaDestinoConversao(p) IN
        /\ saldo_carteira'[o] = saldo_carteira[o] - valor
        /\ saldo_carteira'[d] = saldo_carteira[d] + credito
        /\ SoMudam({o, d})
        /\ (valor = 10000 /\ cotacao = [num |-> 2, den |-> 1]) =>
              /\ conversao'[Len(conversao')].taxa_valor = 200
              /\ saldo_carteira'[d] = saldo_carteira[d] + 19600
              /\ saldo_carteira'[o] = saldo_carteira[o] - 10000

DepositoSemDeduplicacao ==
    \A p \in Procs :
        /\ Conclui(p, "depositar") =>
              /\ saldo_carteira'[LinhaOrigem(p)] = saldo_carteira[LinhaOrigem(p)] + proc[p].valor
              /\ SoMudam({LinhaOrigem(p)})
              /\ deposito_saque' = Append(deposito_saque,
                    [endereco_carteira |-> proc[p].endereco_carteira,
                     id_moeda |-> LinhaOrigem(p)[2], tipo |-> "DEPOSITO",
                     valor |-> proc[p].valor, taxa_valor |-> 0])
              /\ proc[p].chave_privada = None
        /\ (/\ proc[p].pc = "ocioso" /\ proc'[p].op = "depositar"
            /\ proc'[p].endereco_carteira \in DOMAIN carteira
            /\ carteira[proc'[p].endereco_carteira].status = "ATIVA"
            /\ proc'[p].codigo_moeda \in DOMAIN MOEDA)
              => proc'[p].pc = "insert"

\* C7: a deposit takes no secret, charges no fee and is never deduplicated:
\* a deposit on an ATIVA wallet and a supported currency passes the gate, and
\* when it commits the balance grows by exactly amount and one DEPOSITO row
\* with taxa_valor 0 is appended, whatever rows the log already holds.
C7_DepositoSemDeduplicacao == [][DepositoSemDeduplicacao]_vars

\* Two deposits of the same amount on the same row have committed.
C7_Witness ==
    /\ Len(deposito_saque) = 2
    /\ deposito_saque[1] = deposito_saque[2]
    /\ saldo_carteira[Linha(deposito_saque[1].endereco_carteira, deposito_saque[1].id_moeda)]
          = 2 * deposito_saque[1].valor

FalhaNaoAltera ==
    \A p \in Procs :
        /\ FalhaDeNegocio(p) => UNCHANGED tabelas
        /\ (proc'[p] # proc[p] /\ ~(proc'[p].pc = "fim" /\ proc'[p].res = Sucesso))
              => UNCHANGED livro
        /\ (/\ proc[p].op = "sacar" /\ proc[p].pc = "saldo"
            /\ proc'[p] # proc[p]
            /\ proc'[p].res.tipo # "Exception"
            /\ saldo_carteira[LinhaOrigem(p)] < proc[p].valor + (proc[p].valor * 1) \div 100)
              => /\ proc'[p].pc = "fim"
                 /\ proc'[p].res.msg = MsgSaldoInsuficienteSaque
                 /\ UNCHANGED tabelas

\* C8: an operation that ends in a business failure leaves every balance and
\* every movement log as before the call (no step of an invocation other
\* than its successful end changes them); a withdrawal whose amount + fee
\* exceeds the balance fails with the insufficient-funds message and alters
\* nothing.
C8_FalhaNaoAltera == [][FalhaNaoAltera]_vars

\* A withdrawal has failed for insufficient funds on a funded row.
C8_Witness ==
    /\ proc["p1"].op = "sacar" /\ proc["p1"].pc = "fim"
    /\ proc["p1"].res.msg = MsgSaldoInsuficienteSaque
    /\ saldo_carteira[LinhaOrigem("p1")] = 100000
    /\ proc["p1"].valor = 100000


RECURSIVE SomaLinhas(_, _)
SomaLinhas(saldos, L) ==
    IF L = {} THEN 0
    ELSE LET l == CHOOSE x \in L : TRUE IN saldos[l] + SomaLinhas(saldos, L \ {l})

\* The total of a currency over all addresses.
Total(saldos, id_moeda) == SomaLinhas(saldos, {l \in DOMAIN saldos : l[2] = id_moeda})

Variacao(id_moeda) == Total(saldo_carteira', id_moeda) - Total(saldo_carteira, id_moeda)

Conservacao ==
    /\ \A p \in Procs : Conclui(p, "depositar") =>
          \A id \in {1, 2} :
             Variacao(id) = IF id = LinhaOrigem(p)[2] THEN proc[p].valor ELSE 0
    /\ \A p \in Procs : Conclui(p, "sacar") =>
          \A id \in {1, 2} :
             Variacao(id) = IF id = LinhaOrigem(p)[2]
                            THEN -(proc[p].valor + (proc[p].valor * 1) \div 100) ELSE 0
    /\ \A p \in Procs : Conclui(p, "transferir_moeda") =>
          \A id \in {1, 2} :
             Variacao(id) = IF id = LinhaOrigem(p)[2]
                            THEN -((proc[p].valor * 1) \div 100) ELSE 0
    /\ \A p \in Procs : Conclui(p, "converter_moeda") =>
          /\ Variacao(LinhaOrigem(p)[2]) = -proc[p].valor
          /\ Variacao(LinhaDestinoConversao(p)[2]) =
                conversao'[Len(conversao')].valor_destino
          /\ conversao'[Len(conversao')].valor_destino > 0
    /\ \A p \in Procs : Conclui(p, "criar_carteira") =>
          \A id \in {1, 2} : Variacao(id) = 0
    /\ (\A p \in Procs : ~(proc[p].pc # "fim" /\ proc'[p].pc = "fim" /\ proc'[p].res = Sucesso))
          => \A id \in {1, 2} : Variacao(id) = 0

CredencialInvalida == ErroValor(MsgChaveInvalidaOuCarteiraNaoEncontrada, "", << >>)

\* C10: a withdrawal does not reveal whether an address exists.  A withdrawal
\* (supported currency) on an address that was never created and a
\* withdrawal on an ATIVA wallet with a wrong key both end with the same
\* result, the invalid-credential message.
C10_SaqueNaoRevelaExistencia ==
    \A p \in Procs :
        (proc[p].pc = "fim" /\ proc[p].op = "sacar" /\ proc[p].codigo_moeda \in DOMAIN MOEDA)
           => /\ proc[p].endereco_carteira \notin DOMAIN carteira
                    => proc[p].res = CredencialInvalida
              /\ proc[p].hash_armazenada \notin {None, SHA256(proc[p].chave_privada)}
                    => proc[p].res = CredencialInvalida

\* What a conversion with a wrong key answers.
ChaveInvalidaConversao == ErroValor(MsgChaveInvalidaConversao, "", << >>)

\* C11: a conversion follows the uniform-failure rule.  With valid
\* currencies and a quote, a conversion on an address that is not an ATIVA
\* wallet (never created, or BLOQUEADA) and a conversion on an ATIVA wallet
\* with a wrong key end with the same type and the same message.
C11_ConversaoNaoRevelaExistencia ==
    \A p \in Procs :
        (/\ proc[p].pc = "fim" /\ proc[p].op = "converter_moeda"
         /\ proc[p].cotacao_utilizada # SemCotacao
         /\ proc[p].res.tipo = "ValueError")
           => /\ proc[p].hash_armazenada = None
                    => proc[p].res = ChaveInvalidaConversao
              /\ proc[p].hash_armazenada \notin {None, SHA256(proc[p].chave_privada)}
                    => proc[p].res = ChaveInvalidaConversao

\* The address names a wallet whose status is ATIVA.
Ativa(endereco) ==
    endereco \in DOMAIN carteira /\ carteira[endereco].status = "ATIVA"

\* The invocation of p ends in this step with res, and the step changes no
\* table and leaves no transaction behind.
RecusaSemEfeito(p, res) ==
    /\ proc'[p].pc = "fim"
    /\ proc'[p].res = res
    /\ tx'[p] = TxVazia
    /\ UNCHANGED tabelas

GateUniforme ==
    \A p \in Procs :
        /\ (/\ proc[p].pc = "ocioso" /\ proc'[p].pc # "ocioso"
            /\ proc'[p].op \in {"depositar", "sacar"}
            /\ ~Ativa(proc'[p].endereco_carteira))
              => RecusaSemEfeito(p, ErroValor(MsgCarteiraNaoEncontradaOuInativa,
                                             proc'[p].endereco_carteira, << >>))
        /\ (/\ proc[p].pc = "ocioso" /\ proc'[p].pc # "ocioso"
            /\ proc'[p].op = "transferir_moeda"
            /\ proc'[p].endereco_carteira # proc'[p].endereco_destino
            /\ proc'[p].codigo_moeda \in DOMAIN MOEDA
            /\ ~Ativa(proc'[p].endereco_carteira))
              => RecusaSemEfeito(p, ErroValor(MsgOrigemNaoEncontrada,
                                             proc'[p].endereco_carteira, << >>))
        /\ (/\ proc[p].pc = "verifica_destino" /\ proc'[p] # proc[p]
            /\ proc'[p].res.tipo # "Exception"
            /\ ~Ativa(proc[p].endereco_destino))
              => RecusaSemEfeito(p, ErroValor(MsgDestinoNaoEncontrado,
                                             proc[p].endereco_destino, << >>))

\* C12: at the gate of depositar, sacar and transferir_moeda an address that
\* does not exist and an address that is BLOQUEADA get the same answer for
\* the same request: the answer depends on the request alone (type
\* ValueError, the not-found-or-inactive message of the operation with the
\* address given), and the refusal changes no table.
C12_GateUniforme == [][GateUniforme]_vars

\* A deposit on a BLOQUEADA wallet was refused at the gate while the other
\* address of the model names no wallet.
C12_Witness ==
    /\ proc["p1"].pc = "fim" /\ proc["p1"].op = "depositar"
    /\ proc["p1"].res.msg = MsgCarteiraNaoEncontradaOuInativa
    /\ proc["p1"].endereco_carteira \in DOMAIN carteira
    /\ carteira[proc["p1"].endereco_carteira].status = "BLOQUEADA"
    /\ DOMAIN carteira # Enderecos

\* The transfer of p reaches the credit of a destination that has no balance
\* row for the currency, and the statement is executed.
CreditoSemLinha(p) ==
    /\ proc[p].op = "transferir_moeda" /\ proc[p].pc = "update_destino"
    /\ LinhaDestinoTransferencia(p) \notin DOMAIN saldo_carteira
    /\ proc'[p] # proc[p]

\* C13: a transfer whose destination has no balance row for the currency
\* aborts as a whole (the invocation ends, the origin is not debited, no
\* TRANSFERENCIA row remains, nothing stays uncommitted) and its failure is
\* the setup fault, not a business error (not the ValueError that the router
\* answers with 400).
C13_DestinoNaoInicializado ==
    [][\A p \in Procs : CreditoSemLinha(p) =>
          /\ proc'[p].pc = "fim"
          /\ proc'[p].res # Sucesso
          /\ tx'[p] = TxVazia
          /\ UNCHANGED tabelas
          /\ proc'[p].res.tipo # "ValueError"]_vars

\* The balance row the next statement of p updates.
ProximaLinha(p) ==
    CASE proc[p].pc = "update_destino" /\ proc[p].op = "transferir_moeda" ->
            LinhaDestinoTransferencia(p)
      [] proc[p].pc = "update_destino" /\ proc[p].op = "converter_moeda" ->
            LinhaDestinoConversao(p)
      [] OTHER -> LinhaOrigem(p)

\* p has updated a row, which it holds until its transaction ends, and its
\* next statement is the update of a row that q holds.
SeguraEEsperaPor(p, q) ==
    /\ proc[p].pc \in {"update", "update_origem", "update_destino"}
    /\ DOMAIN tx[p].deltas # {}
    /\ ProximaLinha(p) \in DOMAIN tx[q].deltas

\* C14: the operations that update two balance rows take them in one fixed
\* order, so two opposite transfers between the same two wallets are never
\* each holding one row while waiting for the row the other holds.
C14_SemEsperaCircular ==
    \A p \in Procs : \A q \in Procs \ {p} :
        ~(SeguraEEsperaPor(p, q) /\ SeguraEEsperaPor(q, p))

CotacaoForaDaTransacao ==
    \A p \in Procs :
        /\ proc'[p].pc = "cotacao" => tx'[p] = TxVazia
        /\ (proc'[p].op = "converter_moeda" /\ tx'[p].aberta)
              => proc'[p].cotacao_utilizada # SemCotacao
        /\ (proc[p].pc = "cotacao" /\ proc'[p] # proc[p]) =>
              /\ UNCHANGED tabelas
              /\ IF proc'[p].cotacao_utilizada = SemCotacao
                 THEN /\ proc'[p].pc = "fim" /\ proc'[p].res # Sucesso
                      /\ tx'[p] = TxVazia
                 ELSE /\ proc'[p].pc = "hash"
                      /\ tx'[p] = [TxVazia EXCEPT !.aberta = TRUE]

\* C15: in a conversion the quote is fetched while no transaction of that
\* conversion is open.  While the quote call is pending the invocation has
\* no transaction; a transaction of a conversion is open only once a rate
\* was obtained; the quote step changes no table, and when the fetch fails
\* the invocation ends there without ever opening one.
C15_CotacaoForaDaTransacao == [][CotacaoForaDaTransacao]_vars

\* A conversion ended at the quote step, the provider having failed.
C15_Witness ==
    /\ proc["p1"].pc = "fim" /\ proc["p1"].op = "converter_moeda"
    /\ proc["p1"].resposta.status = "timeout"
    /\ proc["p1"].res.tipo = "RuntimeError"
    /\ tx["p1"] = TxVazia
    /\ conversao = << >>

\* C16: a failure of the quote provider has one of two types.  The pair not
\* supported (HTTP 404) is a ValueError; a body that is not JSON, a missing
\* data.amount, an amount that is not a number, any other HTTP error, a
\* network failure and a timeout are each a RuntimeError.
C16_FalhasDaCotacao ==
    \A p \in Procs :
        (/\ proc[p].pc = "fim" /\ proc[p].op = "converter_moeda"
         /\ proc[p].resposta # SemResposta
         /\ proc[p].cotacao_utilizada = SemCotacao)
           => proc[p].res.tipo =
                 IF proc[p].resposta.status = "404" THEN "ValueError" ELSE "RuntimeError"

\* Two quotes whose product is 1.
Reciprocas(c, d) == c.num * d.num = c.den * d.den

\* Conversion b converts back all that conversion a credited, at the
\* reciprocal quote.
Volta(a, b) ==
    /\ b.endereco_carteira = a.endereco_carteira
    /\ b.id_moeda_origem = a.id_moeda_destino
    /\ b.id_moeda_destino = a.id_moeda_origem
    /\ b.valor_origem = a.valor_destino
    /\ Reciprocas(a.cotacao_utilizada, b.cotacao_utilizada)

StatusSoAvanca ==
    /\ DOMAIN carteira \subseteq DOMAIN carteira'
    /\ \A e \in DOMAIN carteira :
          carteira[e].status = "BLOQUEADA" => carteira'[e].status = "BLOQUEADA"

\* C18: wallets are never deleted and status is one-way.  In every step a
\* wallet that exists still exists afterwards, and a wallet that is
\* BLOQUEADA is still BLOQUEADA afterwards.
C18_StatusSoAvanca == [][StatusSoAvanca]_vars

\* A wallet was blocked while the other stayed ATIVA, and a request naming
\* the blocked one has run since.
C18_Witness ==
    /\ DOMAIN carteira = Enderecos
    /\ proc["p1"].pc = "fim" /\ proc["p1"].op = "sacar"
    /\ carteira[proc["p1"].endereco_carteira].status = "BLOQUEADA"
    /\ \E e \in Enderecos : carteira[e].status = "ATIVA"

\* The balance rows of an address.
LinhasDe(saldos, endereco) == {l \in DOMAIN saldos : l[1] = endereco}

\* One row per currency of MOEDA.
LinhasDevidas(endereco) == {Linha(endereco, MOEDA[c]) : c \in DOMAIN MOEDA}

CriacaoCompleta ==
    /\ \A p \in Procs : Conclui(p, "criar_carteira") =>
          LET e == proc[p].endereco_carteira IN
          /\ e \notin DOMAIN carteira
          /\ e \in DOMAIN carteira'
          /\ carteira'[e].status = "ATIVA"
          /\ \A l \in LinhasDevidas(e) :
                l \in DOMAIN saldo_carteira' /\ saldo_carteira'[l] = 0
    /\ \A e \in Enderecos :
          LinhasDe(saldo_carteira', e) =
             IF e \in DOMAIN carteira' THEN LinhasDevidas(e) ELSE {}

\* C19: wallet creation is atomic and complete.  When criar_carteira commits
\* the wallet appears with status ATIVA together with one balance row of
\* amount 0 for every currency of MOEDA; in every state an address has
\* either a wallet and all of its balance rows, or neither (a creation that
\* fails midway leaves nothing).
C19_CriacaoCompleta == [][CriacaoCompleta]_vars

\* A creation has committed and another one is between its two inserts.
C19_Witness ==
    /\ Cardinality(DOMAIN carteira) = 1
    /\ proc["p1"].op = "criar_carteira" /\ proc["p1"].pc = "saldos"
    /\ Len(tx["p1"].inseridos) = 1
    /\ proc["p1"].endereco_carteira \notin DOMAIN carteira
    /\ \A e \in DOMAIN carteira :
          \A l \in LinhasDevidas(e) : l \in DOMAIN saldo_carteira

SoChaveDaOrigem ==
    \A p \in Procs :
        /\ (/\ proc[p].op = "transferir_moeda" /\ proc[p].pc = "hash"
            /\ proc'[p] # proc[p]
            /\ proc'[p].res.tipo # "Exception"
            /\ Ativa(proc[p].endereco_carteira)
            /\ SHA256(proc[p].chave_privada)
                  # carteira[proc[p].endereco_carteira].hash_chave_privada)
              => RecusaSemEfeito(p, ErroValor(MsgChaveOrigemInvalida, "", << >>))
        /\ (/\ proc'[p].op = "transferir_moeda"
            /\ \/ tx'[p].aberta
               \/ proc'[p].pc = "fim" /\ proc'[p].res = Sucesso)
              => SHA256(proc'[p].chave_privada)
                    = carteira'[proc'[p].endereco_carteira].hash_chave_privada

\* C20: a transfer is authorised only by the key of the origin.  A transfer
\* between two ATIVA wallets presented with a key whose SHA-256 digest is not
\* the origin's stored digest (the destination's own key included) ends at
\* the authentication with the invalid-key ValueError and changes no table;
\* a transfer opens its transaction, and succeeds, only with the origin's key.
C20_SoChaveDaOrigem == [][SoChaveDaOrigem]_vars

\* A transfer presented with the destination's valid key was refused.
C20_Witness ==
    /\ proc["p1"].pc = "fim" /\ proc["p1"].op = "transferir_moeda"
    /\ proc["p1"].res = ErroValor(MsgChaveOrigemInvalida, "", << >>)
    /\ proc["p1"].endereco_destino \in DOMAIN carteira
    /\ SHA256(proc["p1"].chave_privada)
          = carteira[proc["p1"].endereco_destino].hash_chave_privada
    /\ transferencia = << >>


\* The private keys and their digests.
Segredos == Chaves \cup {SHA256(k) : k \in Chaves}

\* The operations that read the registry.
Consultas == {"buscar_por_endereco", "listar", "buscar_saldos", "bloquear"}

\* No row of a response has a field for the key or its digest, and no text
\* field of it holds a key or a digest.
NaoExpoe(retorno) ==
    \A r \in retorno :
        /\ DOMAIN r \cap {"chave_privada", "hash_chave_privada"} = {}
        /\ \A f \in DOMAIN r \ {"saldo"} : r[f] \notin Segredos

\* The key criar_carteira drew with an address.
ChaveCriada(endereco) ==
    (CHOOSE i \in Identidades : i.endereco_carteira = endereco).chave_privada

SegredoSoNaCriacao ==
    \A p \in Procs :
        /\ Conclui(p, "criar_carteira") =>
              \E r \in proc'[p].retorno :
                 /\ proc'[p].retorno = {r}
                 /\ r.endereco_carteira \in DOMAIN carteira' \ DOMAIN carteira
                 /\ r.chave_privada = ChaveCriada(r.endereco_carteira)
                 /\ carteira'[r.endereco_carteira].hash_chave_privada = SHA256(r.chave_privada)
                 /\ carteira'[r.endereco_carteira].hash_chave_privada # r.chave_privada
        /\ (proc[p].pc # "fim" /\ proc'[p].pc = "fim" /\ proc'[p].op \in Consultas) =>
              NaoExpoe(proc'[p].retorno)
        /\ (/\ proc[p].pc = "hash" /\ proc'[p].pc # "hash"
            /\ proc'[p].res.tipo # "Exception"
            /\ Ativa(proc[p].endereco_carteira)
            /\ proc[p].chave_privada = ChaveCriada(proc[p].endereco_carteira)) =>
              proc'[p].pc = "saldo"

\* C21: only the digest of the private key is stored and only criar_carteira
\* returns the key: when criar_carteira completes, the new CARTEIRA row holds
\* SHA-256 of the key it returns (and not the key); a withdrawal, conversion
\* or transfer of an ATIVA wallet presenting that key passes authentication;
\* and nothing buscar_por_endereco, listar, buscar_saldos or bloquear returns
\* holds a key or a digest.
C21_SegredoSoNaCriacao == [][SegredoSoNaCriacao]_vars

\* listar has answered with two wallets, one of them blocked, after both
\* were created.
C21_Witness ==
    /\ proc["p1"].pc = "fim" /\ proc["p1"].op = "listar"
    /\ Cardinality(proc["p1"].retorno) = 2
    /\ \E r \in proc["p1"].retorno : r.status = "BLOQUEADA"


\* A transfer request whose two addresses are equal is received in this step.
TransferenciaParaSi(p) ==
    /\ proc[p].pc = "ocioso"
    /\ proc'[p].op = "transferir_moeda"
    /\ proc'[p].endereco_carteira = proc'[p].endereco_destino

MesmaCarteiraPrimeiro ==
    \A p \in Procs :
        TransferenciaParaSi(p) =>
            /\ proc'[p].pc = "fim"
            /\ proc'[p].res = ErroValor(MsgMesmaCarteira, "", << >>)
            /\ UNCHANGED <<tabelas, tx>>

\* C22: a transfer whose origin and destination are the same address fails
\* with the same-wallet error at once, whatever the address, the currency,
\* the key and the balance are, and changes no table.
C22_MesmaCarteiraPrimeiro == [][MesmaCarteiraPrimeiro]_vars

\* A transfer of an unknown address to itself, in a currency MOEDA does not
\* have, has been refused with the same-wallet error.
C22_Witness ==
    /\ proc["p1"].pc = "fim" /\ proc["p1"].op = "transferir_moeda"
    /\ proc["p1"].endereco_carteira = proc["p1"].endereco_destino
    /\ proc["p1"].endereco_carteira \notin DOMAIN carteira
    /\ proc["p1"].codigo_moeda = "XXX"
    /\ proc["p1"].res = ErroValor(MsgMesmaCarteira, "", << >>)


\* The sum of amount * (1 + rate) over the SAQUE rows of a log.
RECURSIVE SomaDebitos(_)
SomaDebitos(log) ==
    IF log = << >> THEN 0
    ELSE (IF Head(log).tipo = "SAQUE" THEN DebitoSaque(Head(log).valor) ELSE 0)
            + SomaDebitos(Tail(log))

\* The sum of the DEPOSITO rows of a log.
RECURSIVE SomaDepositos(_)
SomaDepositos(log) ==
    IF log = << >> THEN 0
    ELSE (IF Head(log).tipo = "DEPOSITO" THEN Head(log).valor ELSE 0)
            + SomaDepositos(Tail(log))

SemDeriva ==
    \A p \in Procs : Conclui(p, "sacar") =>
        LET l == LinhaOrigem(p)
            r == deposito_saque'[Len(deposito_saque')] IN
        /\ saldo_carteira'[l] = SomaDepositos(deposito_saque') - SomaDebitos(deposito_saque')
        /\ r.valor + r.taxa_valor = saldo_carteira[l] - saldo_carteira'[l]

\* C23: amounts are exact at 8 fractional digits: after every committed
\* withdrawal of a wallet that holds one deposit, the stored balance is the
\* deposit minus the sum of amount * (1 + rate) of the withdrawals committed
\* so far, and the valor and taxa_valor of the new SAQUE row add up to what
\* the balance row lost.
C23_SemDeriva == [][SemDeriva]_vars


\* C24: when requests run one at a time from wallets created with zero
\* balances, no balance is negative after any committed deposit, withdrawal,
\* conversion or transfer: every committed balance row is >= 0, and so is
\* every row with the writes a running request has yet to commit.
C24_SaldoNaoNegativoUmPorVez ==
    \A l \in DOMAIN saldo_carteira :
        /\ saldo_carteira[l] >= 0
        /\ \A p \in Procs : saldo_carteira[l] + DeltaProprio(p, l) >= 0

\* The conversion of all a wallet holds of a currency has committed and
\* left that balance at 0.
C24_Witness ==
    /\ proc["p1"].op = "converter_moeda" /\ proc["p1"].pc = "fim"
    /\ proc["p1"].res = Sucesso
    /\ proc["p1"].valor = proc["p1"].saldo_atual
    /\ saldo_carteira[LinhaOrigem("p1")] = 0
    /\ saldo_carteira[LinhaDestinoConversao("p1")] > 0


\* The operations that move value.
Movimentacoes == {"depositar", "sacar", "converter_moeda", "transferir_moeda"}

\* The wallets a movement request names: the owner or origin, and the
\* destination of a transfer.
CarteirasDe(p) ==
    {proc[p].endereco_carteira} \cup
        (IF proc[p].op = "transferir_moeda" THEN {proc[p].endereco_destino} ELSE {})

SemEscritaEmBloqueada ==
    \A p \in Procs :
        (proc[p].op \in Movimentacoes /\ Conclui(p, proc[p].op)) =>
            \A e \in CarteirasDe(p) : Ativa(e)

\* C25: the ATIVA gate and the authentication are in the same atomic unit as
\* the writes: whenever a deposit, withdrawal, conversion or transfer commits,
\* every wallet it names (owner, origin, destination) is ATIVA at that moment,
\* however bloquear is interleaved with it.
C25_SemEscritaEmBloqueada == [][SemEscritaEmBloqueada]_vars


\* The request of p asks for all that its source row holds.
SaldoInteiro(p) ==
    /\ LinhaOrigem(p) \in DOMAIN saldo_carteira
    /\ proc[p].valor = saldo_carteira[LinhaOrigem(p)]

\* The balance check of p is made in this step (and the store answers).
ChecaSaldo(p) ==
    /\ proc[p].pc = "saldo" /\ proc'[p].pc # "saldo"
    /\ proc'[p].res.tipo # "Exception"

ModelosDeTaxa ==
    \A p \in Procs :
        /\ (ChecaSaldo(p) /\ SaldoInteiro(p)) =>
              IF proc[p].op = "converter_moeda"
              THEN proc'[p].pc = "insert"
              ELSE /\ proc[p].op \in {"sacar", "transferir_moeda"}
                   /\ proc'[p].pc = "fim"
                   /\ proc'[p].res.tipo = "ValueError"
                   /\ proc'[p].res.msg = IF proc[p].op = "sacar"
                                         THEN MsgSaldoInsuficienteSaque
                                         ELSE MsgSaldoInsuficienteNaMoeda
                   /\ UNCHANGED tabelas
        /\ (Conclui(p, "converter_moeda") /\ SaldoInteiro(p)) =>
              saldo_carteira'[LinhaOrigem(p)] = 0

\* C26: the fee models differ: a conversion of all the source balance B
\* passes the balance check and, when it commits, leaves the source balance
\* at exactly 0, while a withdrawal or a transfer of all of B fails with
\* insufficient funds, because it needs B * (1 + rate).
C26_ModelosDeTaxa == [][ModelosDeTaxa]_vars

\* The transfer of all the origin holds has been refused for insufficient
\* funds.
C26_Witness ==
    /\ proc["p1"].op = "transferir_moeda" /\ proc["p1"].pc = "fim"
    /\ proc["p1"].res.msg = MsgSaldoInsuficienteNaMoeda
    /\ proc["p1"].valor = proc["p1"].saldo_atual
    /\ proc["p1"].valor = saldo_carteira[LinhaOrigem("p1")]
    /\ proc["p1"].valor > 0


\* The request of p has ended with the insufficient-funds error.
SaldoInsuficiente(p) ==
    /\ proc[p].pc = "fim"
    /\ proc[p].op \in {"sacar", "converter_moeda", "transferir_moeda"}
    /\ proc[p].res.msg \in {MsgSaldoInsuficienteSaque, MsgSaldoInsuficienteNaMoeda}

\* The key the request of p presents is the key of the wallet it names.
ChaveCerta(p) ==
    /\ proc[p].endereco_carteira \in DOMAIN carteira
    /\ carteira[proc[p].endereco_carteira].hash_chave_privada = SHA256(proc[p].chave_privada)

\* C27: the insufficient-funds error, whose message tells amounts and the
\* balance, is returned by sacar, converter_moeda and transferir_moeda only
\* to a caller that presented the key of the wallet: no request with a wrong
\* key ends with it, whatever the balance.
C27_SaldoSoAposAutenticar ==
    \A p \in Procs : SaldoInsuficiente(p) => ChaveCerta(p)

\* A withdrawal with a wrong key, of more than the wallet holds, has been
\* refused for the key.
C27_Witness ==
    /\ proc["p1"].op = "sacar" /\ proc["p1"].pc = "fim"
    /\ Ativa(proc["p1"].endereco_carteira)
    /\ ~ChaveCerta("p1")
    /\ LinhaOrigem("p1") \in DOMAIN saldo_carteira
    /\ saldo_carteira[LinhaOrigem("p1")] < proc["p1"].valor
    /\ proc["p1"].res = ErroValor(MsgChaveInvalidaOuCarteiraNaoEncontrada, "", << >>)


\* The log keeps every record it has, in place.
SoCresce(log) == Len(log') >= Len(log) /\ SubSeq(log', 1, Len(log)) = log

\* The invocation of p ends in this step without success.
Falha(p) == proc[p].pc # "fim" /\ proc'[p].pc = "fim" /\ proc'[p].res # Sucesso

UmRegistroPorOperacao ==
    /\ SoCresce(deposito_saque) /\ SoCresce(conversao) /\ SoCresce(transferencia)
    /\ <<deposito_saque, conversao, transferencia>>'
           # <<deposito_saque, conversao, transferencia>>
          => \E p \in Procs : proc[p].op \in Movimentacoes /\ Conclui(p, proc[p].op)
    /\ \A p \in Procs :
          /\ Falha(p) => UNCHANGED <<deposito_saque, conversao, transferencia>>
          /\ (Conclui(p, "depositar") \/ Conclui(p, "sacar")) =>
                /\ Acrescenta(deposito_saque)
                /\ deposito_saque'[Len(deposito_saque')].tipo = TipoMovimento(proc[p].op)
                /\ deposito_saque'[Len(deposito_saque')].endereco_carteira
                      = proc[p].endereco_carteira
                /\ UNCHANGED <<conversao, transferencia>>
          /\ Conclui(p, "converter_moeda") =>
                /\ Acrescenta(conversao)
                /\ conversao'[Len(conversao')].endereco_carteira = proc[p].endereco_carteira
                /\ UNCHANGED <<deposito_saque, transferencia>>
          /\ Conclui(p, "transferir_moeda") =>
                /\ Acrescenta(transferencia)
                /\ transferencia'[Len(transferencia')].endereco_origem
                      = proc[p].endereco_carteira
                /\ UNCHANGED <<deposito_saque, conversao>>
          /\ (proc[p].pc = "fim" /\ proc'[p] # proc[p]) => proc'[p] = Ocioso

\* C28: the movement logs are append-only and one-to-one with the committed
\* operations: every step keeps every record of every log in place; an
\* invocation that succeeds appends exactly one record, of its kind and for
\* its wallet, and nothing to the other logs; one that fails appends none;
\* a log grows in no other step; and an invocation that has ended is not run
\* again.
C28_UmRegistroPorOperacao == [][UmRegistroPorOperacao]_vars

\* A deposit and a transfer have committed and each log holds the one record
\* of each.
C28_Witness ==
    /\ proc["p1"].op = "transferir_moeda" /\ proc["p1"].pc = "fim"
    /\ proc["p1"].res = Sucesso
    /\ Len(deposito_saque) = 1 /\ deposito_saque[1].tipo = "DEPOSITO"
    /\ Len(transferencia) = 1
    /\ transferencia[1].endereco_origem = proc["p1"].endereco_carteira
    /\ conversao = << >>


\* The balance of row l replayed from the three movement logs.
ReplayMovimentos(l) ==
    LET f[i \in 0..Len(deposito_saque)] ==
            IF i = 0 THEN 0 ELSE f[i - 1] + EfeitoMovimento(deposito_saque[i], l)
    IN f[Len(deposito_saque)]
ReplayConversoes(l) ==
    LET f[i \in 0..Len(conversao)] ==
            IF i = 0 THEN 0 ELSE f[i - 1] + EfeitoConversao(conversao[i], l)
    IN f[Len(conversao)]
ReplayTransferencias(l) ==
    LET f[i \in 0..Len(transferencia)] ==
            IF i = 0 THEN 0 ELSE f[i - 1] + EfeitoTransferencia(transferencia[i], l)
    IN f[Len(transferencia)]
Replay(l) == ReplayMovimentos(l) + ReplayConversoes(l) + ReplayTransferencias(l)

\* C29: ledger replay: in every reachable state every balance row equals the
\* sum over the movement logs of deposits (+valor), withdrawals
\* (-(valor + taxa_valor)), conversions out (-valor_origem), conversions in
\* (+valor_destino), transfers out (-valor) and transfers in
\* (+(valor - taxa_valor)).
C29_Replay ==
    \A l \in DOMAIN saldo_carteira : saldo_carteira[l] = Replay(l)


\* The row an invocation credits: the row of a deposit, the destination row
\* of a transfer.
LinhaCreditada(p) ==
    IF proc[p].op = "depositar"
    THEN Linha(proc[p].endereco_carteira, get_id_moeda(proc[p].codigo_moeda))
    ELSE Linha(proc[p].endereco_destino, get_id_moeda(proc[p].codigo_moeda))

\* p runs a deposit or a transfer that has not ended.
CreditoEmCurso(p) ==
    /\ proc[p].op \in {"depositar", "transferir_moeda"}
    /\ proc[p].pc \notin {"ocioso", "fim"}

\* Since the initial deposits the logs hold only credits of (w1, BTC).
SoCreditosEmW1 ==
    /\ conversao = << >>
    /\ \A i \in (Len(DepositosIniciais) + 1)..Len(deposito_saque) :
          /\ deposito_saque[i].tipo = "DEPOSITO"
          /\ deposito_saque[i].endereco_carteira = "w1"
          /\ deposito_saque[i].id_moeda = 1
    /\ \A i \in 1..Len(transferencia) :
          transferencia[i].endereco_destino = "w1" /\ transferencia[i].id_moeda = 1

\* The amounts of the credits the logs hold since the initial deposits.
SomaCreditos ==
    LET d[i \in Len(DepositosIniciais)..Len(deposito_saque)] ==
            IF i = Len(DepositosIniciais) THEN 0 ELSE d[i - 1] + deposito_saque[i].valor
        t[i \in 0..Len(transferencia)] ==
            IF i = 0 THEN 0
            ELSE t[i - 1] + (transferencia[i].valor - transferencia[i].taxa_valor)
    IN d[Len(deposito_saque)] + t[Len(transferencia)]

CreditosNaoSePerdem ==
    /\ \A p \in Procs :
          (Conclui(p, "depositar") \/ Conclui(p, "transferir_moeda")) =>
             saldo_carteira'[LinhaCreditada(p)]
                = saldo_carteira[LinhaCreditada(p)] + proc[p].valor
    /\ SoCreditosEmW1' =>
          saldo_carteira'[<<"w1", 1>>] = DepositosIniciais[1].valor + SomaCreditos'

\* C30: concurrent credits are never lost: a deposit or an incoming transfer
\* that commits raises the balance of the row it credits by exactly its
\* amount, whatever the other requests in flight on that row do, and when
\* only credits of (w1, BTC) have committed the balance of the row is its
\* initial balance plus the sum of their amounts.
C30_CreditosNaoSePerdem == [][CreditosNaoSePerdem]_vars

\* Two deposits on (w1, BTC) are outstanding together and both have
\* committed.
C30_Witness ==
    /\ \A p \in Procs :
          /\ proc[p].op = "depositar" /\ proc[p].pc = "fim" /\ proc[p].res = Sucesso
          /\ LinhaCreditada(p) = <<"w1", 1>>
    /\ Len(deposito_saque) = Len(DepositosIniciais) + 2
    /\ saldo_carteira[<<"w1", 1>>] = 300000


\* The balance rows whose amount the step changes, created or removed rows
\* included.
LinhasAlteradas ==
    {l \in DOMAIN saldo_carteira \cup DOMAIN saldo_carteira' :
        \/ l \notin DOMAIN saldo_carteira
        \/ l \notin DOMAIN saldo_carteira'
        \/ saldo_carteira'[l] # saldo_carteira[l]}

\* The conversion of p is at its credit and the wallet has no balance row
\* for the destination currency.
ConversaoSemLinhaDestino(p) ==
    /\ proc[p].op = "converter_moeda" /\ proc[p].pc = "update_destino"
    /\ LinhaDestinoConversao(p) \notin DOMAIN saldo_carteira

DebitoComCredito ==
    \A p \in Procs :
       /\ Conclui(p, "converter_moeda") =>
             LET r == conversao'[Len(conversao')]
                 o == Linha(r.endereco_carteira, r.id_moeda_origem)
                 d == Linha(r.endereco_carteira, r.id_moeda_destino) IN
             /\ o # d
             /\ LinhasAlteradas = {o, d}
             /\ saldo_carteira'[o] = saldo_carteira[o] - r.valor_origem
             /\ saldo_carteira'[d] = saldo_carteira[d] + r.valor_destino
       /\ (ConversaoSemLinhaDestino(p) /\ proc'[p] # proc[p]) =>
             /\ proc'[p].pc = "fim"
             /\ proc'[p].res # Sucesso
             /\ tx'[p] = TxVazia
             /\ UNCHANGED tabelas

\* C31: a conversion never commits a debit without its credit: a conversion
\* that commits changes exactly two balance rows of its address, the source
\* row lowered by valor_origem and the destination row raised by
\* valor_destino; a conversion whose wallet has no balance row for the
\* destination currency ends at the credit without committing, and the
\* source balance is as it was.
C31_DebitoComCredito == [][DebitoComCredito]_vars


\* p is answered in this step for a request of the registry.
Respondida(p, op) ==
    proc[p].pc = "ocioso" /\ proc'[p].pc = "fim" /\ proc'[p].op = op

\* The balances of an address as the ledger holds them, one per currency.
SaldosDe(endereco) ==
    {[codigo_moeda |-> c, saldo |-> saldo_carteira[<<endereco, MOEDA[c]>>]] :
        c \in {m \in DOMAIN MOEDA : <<endereco, MOEDA[m]>> \in DOMAIN saldo_carteira}}

BloquearSoMudaStatus ==
    /\ \A p \in Procs : Respondida(p, "bloquear") =>
          LET e == proc'[p].endereco_carteira IN
          /\ UNCHANGED <<saldo_carteira, deposito_saque, conversao, transferencia>>
          /\ DOMAIN carteira' = DOMAIN carteira
          /\ \A o \in DOMAIN carteira \ {e} : carteira'[o] = carteira[o]
          /\ e \in DOMAIN carteira =>
                /\ proc'[p].res = Sucesso
                /\ carteira'[e] = [carteira[e] EXCEPT !.status = "BLOQUEADA"]
                /\ carteira[e].status = "BLOQUEADA" => carteira' = carteira
          /\ e \notin DOMAIN carteira =>
                proc'[p].res # Sucesso /\ carteira' = carteira
    /\ (\E e \in DOMAIN carteira :
            e \in DOMAIN carteira' /\ carteira'[e].status # carteira[e].status) =>
          UNCHANGED <<saldo_carteira, deposito_saque, conversao, transferencia>>
    /\ \A p \in Procs : Respondida(p, "buscar_saldos") =>
          LET e == proc'[p].endereco_carteira IN
          (e \in DOMAIN carteira /\ carteira[e].status = "BLOQUEADA") =>
              proc'[p].res = Sucesso /\ proc'[p].retorno = SaldosDe(e)

\* C32: bloquear changes only the status of the wallet: a step that blocks
\* leaves every balance row and every movement record as it was and every
\* other wallet too; on a wallet that is BLOQUEADA already it changes
\* nothing; on an unknown address it fails and no wallet is created or
\* changed; and buscar_saldos on a BLOQUEADA wallet succeeds and returns the
\* balances the ledger holds.
C32_BloquearSoMudaStatus == [][BloquearSoMudaStatus]_vars

\* The balances of a wallet that was funded and then blocked have been read.
C32_Witness ==
    /\ proc["p1"].op = "buscar_saldos" /\ proc["p1"].pc = "fim"
    /\ proc["p1"].res = Sucesso
    /\ proc["p1"].endereco_carteira \in DOMAIN carteira
    /\ carteira[proc["p1"].endereco_carteira].status = "BLOQUEADA"
    /\ [codigo_moeda |-> "BTC", saldo |-> 100000] \in proc["p1"].retorno


Bloqueada(endereco) ==
    endereco \in DOMAIN carteira /\ carteira[endereco].status = "BLOQUEADA"

\* The step in which the request of p looks up whether wallet e is ATIVA:
\* the invocation for the owner of a deposit or a withdrawal and for the
\* origin of a transfer, the authentication for the owner of a conversion,
\* the step after the invocation for the destination of a transfer.
GateAvaliado(p, e) ==
    \/ /\ proc[p].pc = "ocioso" /\ proc'[p].pc # "ocioso"
       /\ proc'[p].op \in {"depositar", "sacar", "transferir_moeda"}
       /\ e = proc'[p].endereco_carteira
    \/ /\ proc[p].op = "converter_moeda"
       /\ proc[p].pc = "hash" /\ proc'[p].pc # "hash"
       /\ e = proc[p].endereco_carteira
    \/ /\ proc[p].op = "transferir_moeda"
       /\ proc[p].pc = "verifica_destino" /\ proc'[p].pc # "verifica_destino"
       /\ e = proc[p].endereco_destino

\* A request that reaches the gate of a BLOQUEADA wallet ends there, failed.
FalhaNoGate ==
    \A p \in Procs, e \in Enderecos :
        (GateAvaliado(p, e) /\ Bloqueada(e)) =>
            /\ proc'[p].pc = "fim"
            /\ proc'[p].res # Sucesso
            /\ tx'[p] = TxVazia

\* No balance row of a BLOQUEADA wallet changes.
SaldosCongelados ==
    \A l \in DOMAIN saldo_carteira :
        Bloqueada(l[1]) =>
            l \in DOMAIN saldo_carteira' /\ saldo_carteira'[l] = saldo_carteira[l]

\* C33: the balances of a blocked wallet are frozen: once bloquear has made
\* a wallet BLOQUEADA, every deposit, withdrawal, conversion or transfer
\* that comes to look the wallet up (as owner, origin or destination) fails
\* at that step, and no step changes a balance row of the wallet.
C33_SaldosCongelados == [][FalhaNoGate /\ SaldosCongelados]_vars

\* The first half of C33 on its own.
FalhaNoGateSempre == [][FalhaNoGate]_vars

====
